---- MODULE Spec2Model ----
(***************************************************************************)
(* A model of humanize-rs: the RFC3339 parser (time/mod.rs), the whole-hour *)
(* time zone (time/timezone.rs), the civil-tuple conversion, the order and  *)
(* the difference of Times, the duration parser (duration/mod.rs) and the   *)
(* byte-size parser (bytes/mod.rs with num/mod.rs).                         *)
(*                                                                          *)
(* Strings are sequences of bytes (0..255), as `s.as_bytes()` sees them.    *)
(* Rust indexes from 0, TLA+ sequences from 1: At and Slice translate.      *)
(* Every public function is an operator computed as the code computes it;   *)
(* the state machine is a caller that invokes one function per step and     *)
(* records the call:  op (which function), arg (its input), ret (its        *)
(* result).                                                                 *)
(*                                                                          *)
(* TLC's integers are 32 bits wide, the program's seconds are u64 and reach *)
(* 315569433600.  A u64 number of seconds n is therefore written in the     *)
(* mixed radix  n = days * 86400 + secs  with 0 <= secs < 86400, which is   *)
(* unique, so two such values are equal exactly when the u64s are.  A u32   *)
(* that can overflow (read_nano's accumulator) is written in two 16-bit     *)
(* limbs, n = hi * 65536 + lo.  The u64 nanoseconds of a duration reach     *)
(* u64::MAX and are written in limbs of three decimal digits, the lowest    *)
(* first, and so are the magnitudes of the integers of the byte sizes.      *)
(***************************************************************************)
EXTENDS Integers, Sequences, FiniteSets, TLC

VARIABLES op, arg, ret

vars == <<op, arg, ret>>

(***************************************************************************)
(* Bytes and byte strings                                                   *)
(***************************************************************************)

\* ASCII codes of the characters the sources and the inputs use.
Chr ==
  [c \in {"0","1","2","3","4","5","6","7","8","9"} |->
      CASE c = "0" -> 48 [] c = "1" -> 49 [] c = "2" -> 50 [] c = "3" -> 51
        [] c = "4" -> 52 [] c = "5" -> 53 [] c = "6" -> 54 [] c = "7" -> 55
        [] c = "8" -> 56 [] c = "9" -> 57]
  @@ ("-" :> 45) @@ ("+" :> 43) @@ (":" :> 58) @@ ("." :> 46) @@ ("/" :> 47)
  @@ ("?" :> 63) @@ (" " :> 32) @@ ("T" :> 84) @@ ("Z" :> 90) @@ ("F" :> 70)
  @@ ("A" :> 65) @@ ("z" :> 122) @@ ("t" :> 116) @@ ("x" :> 120)

\* The byte string of a sequence of one-character strings.
Str(cs) == [i \in 1..Len(cs) |-> Chr[cs[i]]]

\* Rust's bs[i]
At(bs, i) == bs[i + 1]

\* Rust's bs[a..b]
Slice(bs, a, b) == SubSeq(bs, a + 1, b)

\* Rust's bs[a..]
SliceFrom(bs, a) == SubSeq(bs, a + 1, Len(bs))

(***************************************************************************)
(* Results                                                                  *)
(***************************************************************************)

\* the variants of ParseError, lib.rs 15-36
ParseErrorKinds ==
  { "EmptyInput", "MissingValue", "InvalidValue", "MissingUnit", "InvalidUnit",
    "DuplicateUnit", "Overflow" }

\* Err(ParseError::kind) of a variant of ParseError; no value for another name
Err(kind) == [tag |-> "Err", kind |-> CHOOSE k \in ParseErrorKinds : k = kind]

\* time/mod.rs names four variants more, which the ParseError of lib.rs does
\* not declare: the time module, which lib.rs does not declare either, is
\* built only with these four added to the enum.  They are written as the
\* lines of time/mod.rs write them.
ErrTooShort == [tag |-> "Err", kind |-> "TooShort"]
ErrTooLong == [tag |-> "Err", kind |-> "TooLong"]
ErrMalformed == [tag |-> "Err", kind |-> "Malformed"]
ErrInvalidTimezone == [tag |-> "Err", kind |-> "InvalidTimezone"]
OkTime(sec, nano) == [tag |-> "Ok", sec |-> sec, nano |-> nano]
OkZone(offset) == [tag |-> "Ok", offset |-> offset]
SomeTime(sec, nano) == [tag |-> "Some", sec |-> sec, nano |-> nano]
SomeZone(offset) == [tag |-> "Some", offset |-> offset]
None == [tag |-> "None"]
\* an arithmetic overflow in a build with overflow checks
Panic == [tag |-> "Panic"]

(***************************************************************************)
(* time/timezone.rs                                                         *)
(***************************************************************************)

OFFSETS ==
  << 3600 * (-12), 3600 * (-11), 3600 * (-10), 3600 * (-9), 3600 * (-8),
     3600 * (-7), 3600 * (-6), 3600 * (-5), 3600 * (-4), 3600 * (-3),
     3600 * (-2), 3600 * (-1),
     0,
     3600, 3600 * 2, 3600 * 3, 3600 * 4, 3600 * 5, 3600 * 6, 3600 * 7,
     3600 * 8, 3600 * 9, 3600 * 10, 3600 * 11, 3600 * 12 >>

\* OFFSETS[i] of the source (0-based)
OffsetsAt(i) == OFFSETS[i + 1]

\* TimeZone::new with `hoffset <= -12` for `<`
TimeZoneNew_LowerOffByOne(hoffset) ==
  IF hoffset <= -12 \/ hoffset > 12
    THEN None
    ELSE SomeZone(OffsetsAt(hoffset + 12))

\* TimeZone::new(hoffset)
TimeZoneNew(hoffset) ==
  IF hoffset < -12 \/ hoffset > 12
    THEN None
    ELSE SomeZone(OffsetsAt(hoffset + 12))

\* The arms of the match in TimeZone::from_str, in source order: the literal
\* and the index into OFFSETS it selects.
ZoneArms ==
  << <<Str(<<"-","1","2",":","0","0">>), 0>>,
     <<Str(<<"-","1","1",":","0","0">>), 1>>,
     <<Str(<<"-","1","0",":","0","0">>), 2>>,
     <<Str(<<"-","0","9",":","0","0">>), 3>>,
     <<Str(<<"-","0","8",":","0","0">>), 4>>,
     <<Str(<<"-","0","7",":","0","0">>), 5>>,
     <<Str(<<"-","0","6",":","0","0">>), 6>>,
     <<Str(<<"-","0","5",":","0","0">>), 7>>,
     <<Str(<<"-","0","4",":","0","0">>), 8>>,
     <<Str(<<"-","0","3",":","0","0">>), 9>>,
     <<Str(<<"-","0","2",":","0","0">>), 10>>,
     <<Str(<<"-","0","1",":","0","0">>), 11>>,
     <<Str(<<"+","0","1",":","0","0">>), 13>>,
     <<Str(<<"+","0","2",":","0","0">>), 14>>,
     <<Str(<<"+","0","3",":","0","0">>), 15>>,
     <<Str(<<"+","0","4",":","0","0">>), 16>>,
     <<Str(<<"+","0","5",":","0","0">>), 17>>,
     <<Str(<<"+","0","6",":","0","0">>), 18>>,
     <<Str(<<"+","0","7",":","0","0">>), 19>>,
     <<Str(<<"+","0","8",":","0","0">>), 20>>,
     <<Str(<<"+","0","9",":","0","0">>), 21>>,
     <<Str(<<"+","1","0",":","0","0">>), 22>>,
     <<Str(<<"+","1","1",":","0","0">>), 23>>,
     <<Str(<<"+","1","2",":","0","0">>), 24>> >>

\* The literals of the first arm of the match: "" | "Z" | "+00:00" | "-00:00"
ZoneZeroArm ==
  { <<>>, Str(<<"Z">>),
    Str(<<"+","0","0",":","0","0">>), Str(<<"-","0","0",":","0","0">>) }

\* from_str with every arm's index into OFFSETS one too low
TimeZoneFromStr_IndexOffByOne(s) ==
  IF s \in ZoneZeroArm
    THEN OkZone(0)
    ELSE IF \E k \in 1..Len(ZoneArms) : ZoneArms[k][1] = s
      THEN LET k == CHOOSE j \in 1..Len(ZoneArms) : ZoneArms[j][1] = s
           IN  OkZone(OffsetsAt(IF ZoneArms[k][2] = 0 THEN 0 ELSE ZoneArms[k][2] - 1))
      ELSE Err("InvalidValue")

\* from_str with "z" in its first arm
TimeZoneFromStr_LowerZ(s) ==
  IF s \in ZoneZeroArm \cup { Str(<<"z">>) }
    THEN OkZone(0)
    ELSE IF \E k \in 1..Len(ZoneArms) : ZoneArms[k][1] = s
      THEN LET k == CHOOSE j \in 1..Len(ZoneArms) : ZoneArms[j][1] = s
           IN  OkZone(OffsetsAt(ZoneArms[k][2]))
      ELSE Err("InvalidValue")

\* <TimeZone as FromStr>::from_str(s)
TimeZoneFromStr(s) ==
  IF s \in ZoneZeroArm
    THEN OkZone(0)
    ELSE IF \E k \in 1..Len(ZoneArms) : ZoneArms[k][1] = s
      THEN LET k == CHOOSE j \in 1..Len(ZoneArms) : ZoneArms[j][1] = s
           IN  OkZone(OffsetsAt(ZoneArms[k][2]))
      ELSE Err("InvalidValue")

(***************************************************************************)
(* u64 seconds in mixed radix, u32 in limbs                                 *)
(***************************************************************************)

SECS_PER_MINUTE == 60
SECS_PER_HOUR == 60 * SECS_PER_MINUTE
SECS_PER_DAY == 24 * SECS_PER_HOUR

\* the u64  days * SECS_PER_DAY + secs,  for any secs >= 0, normalised
Secs(days, secs) ==
  [days |-> days + secs \div SECS_PER_DAY, secs |-> secs % SECS_PER_DAY]

\* a < b on u64 seconds
SecsLess(a, b) == a.days < b.days \/ (a.days = b.days /\ a.secs < b.secs)

\* a + n for a small n >= 0
SecsAdd(a, n) == Secs(a.days, a.secs + n)

\* a - n for 0 <= n <= SECS_PER_DAY and n <= a
SecsSub(a, n) ==
  IF n <= a.secs
    THEN [days |-> a.days, secs |-> a.secs - n]
    ELSE [days |-> a.days - 1, secs |-> a.secs + SECS_PER_DAY - n]

\* one 16-bit limb of a u32
Limb == 2^16

\* (n * 10 + c) in u32 arithmetic on limbs, with the overflow it makes:
\* the source's  n = n * 10; n += (c - b'0') as u32
MulAddU32(n, c) ==
  LET lo == n.lo * 10 + c
      hi == n.hi * 10 + lo \div Limb
  IN  [hi |-> hi % Limb, lo |-> lo % Limb, ovf |-> n.ovf \/ hi >= Limb]

\* a u32 below 2^31, in limbs, as an integer; a u32 of 2^31 or more is no
\* integer of TLC and stays in limbs
U32Int(n) == n.hi * Limb + n.lo

\* the limbs of an integer 0 <= v < 2^31
U32Of(v) == [hi |-> v \div Limb, lo |-> v % Limb]

\* in_range(n, min, max) of a u32 n in limbs, for integers min and max
U32InRange(n, min, max) ==
  /\ (n.hi > min \div Limb \/ (n.hi = min \div Limb /\ n.lo >= min % Limb))
  /\ (n.hi < max \div Limb \/ (n.hi = max \div Limb /\ n.lo <= max % Limb))

(***************************************************************************)
(* time/mod.rs: Time::from_timetuple                                        *)
(***************************************************************************)

\* MAX_SECONDS = 315569433600 = 3652424 * 86400
MAX_SECONDS == Secs(3652424, 0)

\* UNIX_EPOCH.sec = 62167132800 = 719527 * 86400
UNIX_EPOCH == [sec |-> Secs(719527, 0), nano |-> 0]

DAYS_PER_400_YEARS == 365 * 400 + 97
DAYS_PER_100_YEARS == 365 * 100 + 24
DAYS_PER_4_YEARS == 365 * 4 + 1

DAYS_BEFORE ==
  << 0,
     31,
     31 + 28,
     31 + 28 + 31,
     31 + 28 + 31 + 30,
     31 + 28 + 31 + 30 + 31,
     31 + 28 + 31 + 30 + 31 + 30,
     31 + 28 + 31 + 30 + 31 + 30 + 31,
     31 + 28 + 31 + 30 + 31 + 30 + 31 + 31,
     31 + 28 + 31 + 30 + 31 + 30 + 31 + 31 + 30,
     31 + 28 + 31 + 30 + 31 + 30 + 31 + 31 + 30 + 31,
     31 + 28 + 31 + 30 + 31 + 30 + 31 + 31 + 30 + 31 + 30,
     31 + 28 + 31 + 30 + 31 + 30 + 31 + 31 + 30 + 31 + 30 + 31 >>

\* is_leap_year without the century rule
is_leap_year_NoCentury(y) == y % 4 = 0

is_leap_year(y) == y % 4 = 0 /\ (y % 100 # 0 \/ y % 400 = 0)

in_range(n, min, max) == min <= n /\ n <= max

is_day_validate(is_leap, m, d) ==
  CASE m = 2 /\ is_leap -> d <= 29
    [] m = 2 /\ ~is_leap -> d <= 28
    [] m \in {4, 6, 9, 11} -> d <= 30
    [] OTHER -> d <= 31

\* DayCount without `d -= 1` for January and February of a leap year
DayCount_NoLeapAdjust(year, month, day) ==
  LET n1 == year \div 400
      y1 == year - 400 * n1
      n2 == y1 \div 100
      y2 == y1 - n2 * 100
      n3 == y2 \div 4
      y3 == y2 - n3 * 4
  IN  DAYS_PER_400_YEARS * n1 + DAYS_PER_100_YEARS * n2 + DAYS_PER_4_YEARS * n3
        + 365 * y3 + DAYS_BEFORE[(month - 1) + 1] + (day - 1)

\* The day count of from_timetuple (lines 104-129): d after `d += day - 1`.
DayCount(year, month, day) ==
  LET is_leap == is_leap_year(year)
      n1 == year \div 400
      y1 == year - 400 * n1
      d1 == DAYS_PER_400_YEARS * n1
      n2 == y1 \div 100
      y2 == y1 - n2 * 100
      d2 == d1 + DAYS_PER_100_YEARS * n2
      n3 == y2 \div 4
      y3 == y2 - n3 * 4
      d3 == d2 + DAYS_PER_4_YEARS * n3
      n4 == y3
      d4 == d3 + 365 * n4
      d5 == d4 + DAYS_BEFORE[(month - 1) + 1]
      d6 == IF year > 0 /\ is_leap /\ month <= 2 THEN d5 - 1 ELSE d5
  IN  d6 + (day - 1)

\* from_timetuple with the offset added instead of subtracted
FromTimetuple_OffsetAdded(year, month, day, hour, minute, second, nano, timezone) ==
  IF \/ ~in_range(year, 0, 10000)
     \/ ~in_range(month, 1, 12)
     \/ ~in_range(day, 1, 31)
     \/ ~in_range(hour, 0, 23)
     \/ ~in_range(minute, 0, 59)
     \/ ~in_range(second, 0, 59)
     \/ ~in_range(nano, 0, 1000000000 - 1)
     \/ ~is_day_validate(is_leap_year(year), month, day)
    THEN None
    ELSE
      LET d == DayCount(year, month, day)
          sec0 == Secs(d, hour * SECS_PER_HOUR + minute * SECS_PER_MINUTE + second)
          offset == -timezone
          underflow == offset >= 0 /\ SecsLess(sec0, Secs(0, offset))
          sec == IF offset >= 0 THEN SecsSub(sec0, offset)
                                ELSE SecsAdd(sec0, -offset)
      IN  IF underflow
            THEN None
            ELSE IF ~SecsLess(sec, MAX_SECONDS)
              THEN None
              ELSE SomeTime(sec, nano)

\* from_timetuple with `sec > MAX_SECONDS` for `sec >= MAX_SECONDS`
FromTimetuple_MaxInclusive(year, month, day, hour, minute, second, nano, timezone) ==
  IF \/ ~in_range(year, 0, 10000)
     \/ ~in_range(month, 1, 12)
     \/ ~in_range(day, 1, 31)
     \/ ~in_range(hour, 0, 23)
     \/ ~in_range(minute, 0, 59)
     \/ ~in_range(second, 0, 59)
     \/ ~in_range(nano, 0, 1000000000 - 1)
     \/ ~is_day_validate(is_leap_year(year), month, day)
    THEN None
    ELSE
      LET d == DayCount(year, month, day)
          sec0 == Secs(d, hour * SECS_PER_HOUR + minute * SECS_PER_MINUTE + second)
          offset == timezone
          underflow == offset >= 0 /\ SecsLess(sec0, Secs(0, offset))
          sec == IF offset >= 0 THEN SecsSub(sec0, offset)
                                ELSE SecsAdd(sec0, -offset)
      IN  IF underflow
            THEN None
            ELSE IF SecsLess(MAX_SECONDS, sec)
              THEN None
              ELSE SomeTime(sec, nano)

\* from_timetuple with the MAX_SECONDS test made before the offset is applied
FromTimetuple_MaxBeforeOffset(year, month, day, hour, minute, second, nano, timezone) ==
  IF \/ ~in_range(year, 0, 10000)
     \/ ~in_range(month, 1, 12)
     \/ ~in_range(day, 1, 31)
     \/ ~in_range(hour, 0, 23)
     \/ ~in_range(minute, 0, 59)
     \/ ~in_range(second, 0, 59)
     \/ ~in_range(nano, 0, 1000000000 - 1)
     \/ ~is_day_validate(is_leap_year(year), month, day)
    THEN None
    ELSE
      LET d == DayCount(year, month, day)
          sec0 == Secs(d, hour * SECS_PER_HOUR + minute * SECS_PER_MINUTE + second)
          offset == timezone
          underflow == offset >= 0 /\ SecsLess(sec0, Secs(0, offset))
          sec == IF offset >= 0 THEN SecsSub(sec0, offset)
                                ELSE SecsAdd(sec0, -offset)
      IN  IF underflow
            THEN None
            ELSE IF ~SecsLess(sec0, MAX_SECONDS)
              THEN None
              ELSE SomeTime(sec, nano)

\* Time::from_timetuple(year, month, day, hour, minute, second, nano, timezone);
\* timezone is the zone's offset in seconds.
FromTimetuple(year, month, day, hour, minute, second, nano, timezone) ==
  IF \/ ~in_range(year, 0, 10000)
     \/ ~in_range(month, 1, 12)
     \/ ~in_range(day, 1, 31)
     \/ ~in_range(hour, 0, 23)
     \/ ~in_range(minute, 0, 59)
     \/ ~in_range(second, 0, 59)
     \/ ~in_range(nano, 0, 1000000000 - 1)
    THEN None
    ELSE
      IF ~is_day_validate(is_leap_year(year), month, day)
        THEN None
        ELSE
          LET d == DayCount(year, month, day)
              sec0 == Secs(d, hour * SECS_PER_HOUR + minute * SECS_PER_MINUTE + second)
              offset == timezone
              underflow == offset >= 0 /\ SecsLess(sec0, Secs(0, offset))
              sec == IF offset >= 0 THEN SecsSub(sec0, offset)
                                    ELSE SecsAdd(sec0, -offset)
          IN  IF underflow
                THEN None
                ELSE IF ~SecsLess(sec, MAX_SECONDS)
                  THEN None
                  ELSE SomeTime(sec, nano)

(***************************************************************************)
(* time/mod.rs: Ord for Time, Time::since, Time::to_system_time             *)
(***************************************************************************)

\* the Time { sec, nano } inside Some(t) / Ok(t)
TimeOf(r) == [sec |-> r.sec, nano |-> r.nano]

\* Some(Duration::new(secs, nanos)), nanos < 10^9; secs in mixed radix
SomeDuration(secs, nanos) == [tag |-> "Some", secs |-> secs, nanos |-> nanos]

\* Some(SystemTime::UNIX_EPOCH + d): the system time, as the duration it lies
\* after SystemTime::UNIX_EPOCH
SomeSystemTime(d) == [tag |-> "Some", after_epoch |-> [secs |-> d.secs, nanos |-> d.nanos]]

\* cmp with the nanoseconds compared the wrong way round
cmp_NanoReversed(self, other) ==
  IF self.sec = other.sec
    THEN IF other.nano < self.nano
           THEN "Less"
           ELSE IF self.nano = other.nano THEN "Equal" ELSE "Greater"
    ELSE IF SecsLess(self.sec, other.sec) THEN "Less" ELSE "Greater"

\* <Time as Ord>::cmp(self, other)
cmp(self, other) ==
  IF self.sec = other.sec
    THEN IF self.nano < other.nano
           THEN "Less"
           ELSE IF self.nano = other.nano THEN "Equal" ELSE "Greater"
    ELSE IF SecsLess(self.sec, other.sec) THEN "Less" ELSE "Greater"

\* a - b on u64 seconds, for b <= a
SecsDiff(a, b) ==
  IF b.secs <= a.secs
    THEN [days |-> a.days - b.days, secs |-> a.secs - b.secs]
    ELSE [days |-> a.days - b.days - 1, secs |-> a.secs + SECS_PER_DAY - b.secs]

\* since without the borrow of a second
since_NoBorrow(self, earlier, overflow_checks) ==
  IF cmp(self, earlier) = "Less"
    THEN None
    ELSE
      LET sec0 == SecsDiff(self.sec, earlier.sec)
          borrow == self.nano < earlier.nano
          nano == (IF borrow THEN self.nano + 1000000000 ELSE self.nano) - earlier.nano
      IN  SomeDuration(sec0, nano)

\* self.since(earlier), lines 167-182, in a build with or without overflow
\* checks.  `sec -= 1` on sec = 0 panics in the first and wraps to u64::MAX in
\* the second, which the mixed radix writes [days |-> -1, secs |-> 86399].
since(self, earlier, overflow_checks) ==
  IF cmp(self, earlier) = "Less"
    THEN None
    ELSE
      LET sec0 == SecsDiff(self.sec, earlier.sec)
          borrow == self.nano < earlier.nano
          underflow == borrow /\ sec0 = Secs(0, 0)
          sec == IF borrow THEN SecsSub(sec0, 1) ELSE sec0
          nano == (IF borrow THEN self.nano + 1000000000 ELSE self.nano) - earlier.nano
      IN  IF underflow /\ overflow_checks
            THEN Panic
            ELSE SomeDuration(sec, nano)

\* to_system_time with the epoch one day late
to_system_time_LateEpoch(self, overflow_checks) ==
  LET d == since(self, [sec |-> SecsAdd(UNIX_EPOCH.sec, SECS_PER_DAY), nano |-> 0],
                 overflow_checks)
  IN  IF d.tag = "Some" THEN SomeSystemTime(d) ELSE d

\* self.to_system_time(), lines 159-165
to_system_time(self, overflow_checks) ==
  LET d == since(self, UNIX_EPOCH, overflow_checks)
  IN  IF d.tag = "Some" THEN SomeSystemTime(d) ELSE d

(***************************************************************************)
(* time/mod.rs: parse_rfc3339 and its scanners                              *)
(***************************************************************************)

DATE_TIME_FORMAT_MIN_LENGTH == 10
DATE_TIME_FORMAT_WITH_TIME == 19
DATE_TIME_FORMAT_MAX_LENGTH == 35

\* The encodings of the characters with the Unicode White_Space property,
\* which str::trim removes from both ends.
WhiteSpace ==
  { <<9>>, <<10>>, <<11>>, <<12>>, <<13>>, <<32>>,
    <<194, 133>>, <<194, 160>>, <<225, 154, 128>>,
    <<226, 128, 168>>, <<226, 128, 169>>, <<226, 128, 175>>,
    <<226, 129, 159>>, <<227, 128, 128>> }
  \cup { <<226, 128, b>> : b \in 128..138 }

\* the length of the white-space character bs starts with, 0 if none
LeadingWs(bs) ==
  IF \E k \in 1..3 : k <= Len(bs) /\ SubSeq(bs, 1, k) \in WhiteSpace
    THEN CHOOSE k \in 1..3 : k <= Len(bs) /\ SubSeq(bs, 1, k) \in WhiteSpace
    ELSE 0

\* the length of the white-space character bs ends with, 0 if none
TrailingWs(bs) ==
  IF \E k \in 1..3 : k <= Len(bs) /\ SubSeq(bs, Len(bs) - k + 1, Len(bs)) \in WhiteSpace
    THEN CHOOSE k \in 1..3 :
           k <= Len(bs) /\ SubSeq(bs, Len(bs) - k + 1, Len(bs)) \in WhiteSpace
    ELSE 0

RECURSIVE TrimStart(_)
TrimStart(bs) ==
  IF LeadingWs(bs) = 0 THEN bs ELSE TrimStart(SliceFrom(bs, LeadingWs(bs)))

RECURSIVE TrimEnd(_)
TrimEnd(bs) ==
  IF TrailingWs(bs) = 0 THEN bs ELSE TrimEnd(Slice(bs, 0, Len(bs) - TrailingWs(bs)))

\* str::trim, on the bytes of a valid UTF-8 string
Trim(bs) == TrimEnd(TrimStart(bs))

\* c < b'0' || c > b'9'
NotDigit(c) == c < Chr["0"] \/ c > Chr["9"]

\* the loop of read_u32 with the test `c < b'0'` alone
RECURSIVE ReadU32Loop_NoUpperTest(_, _, _)
ReadU32Loop_NoUpperTest(bs, read, n) ==
  IF read < Len(bs)
    THEN LET c == At(bs, read)
         IN  IF c < Chr["0"]
               THEN [err |-> TRUE, n |-> n]
               ELSE ReadU32Loop_NoUpperTest(bs, read + 1, MulAddU32(n, c - Chr["0"]))
    ELSE [err |-> FALSE, n |-> n]

\* check_pattern without its check of byte 19
check_pattern_NoByte19(bs) ==
  IF At(bs, 4) # Chr["-"] \/ At(bs, 7) # Chr["-"]
    THEN FALSE
    ELSE IF /\ Len(bs) > DATE_TIME_FORMAT_MIN_LENGTH
            /\ \/ (/\ At(bs, DATE_TIME_FORMAT_MIN_LENGTH) # Chr["T"]
                    /\ At(bs, DATE_TIME_FORMAT_MIN_LENGTH) # Chr[" "])
               \/ At(bs, DATE_TIME_FORMAT_MIN_LENGTH + 3) # Chr[":"]
               \/ At(bs, DATE_TIME_FORMAT_MIN_LENGTH + 6) # Chr[":"]
      THEN FALSE
      ELSE TRUE

check_pattern(bs) ==
  IF At(bs, 4) # Chr["-"] \/ At(bs, 7) # Chr["-"]
    THEN FALSE
    ELSE IF /\ Len(bs) > DATE_TIME_FORMAT_MIN_LENGTH
            /\ \/ (/\ At(bs, DATE_TIME_FORMAT_MIN_LENGTH) # Chr["T"]
                    /\ At(bs, DATE_TIME_FORMAT_MIN_LENGTH) # Chr[" "])
               \/ At(bs, DATE_TIME_FORMAT_MIN_LENGTH + 3) # Chr[":"]
               \/ At(bs, DATE_TIME_FORMAT_MIN_LENGTH + 6) # Chr[":"]
      THEN FALSE
      ELSE IF /\ Len(bs) > DATE_TIME_FORMAT_WITH_TIME
              /\ At(bs, DATE_TIME_FORMAT_WITH_TIME) # Chr["."]
              /\ At(bs, DATE_TIME_FORMAT_WITH_TIME) # Chr["Z"]
              /\ At(bs, DATE_TIME_FORMAT_WITH_TIME) # Chr["+"]
              /\ At(bs, DATE_TIME_FORMAT_WITH_TIME) # Chr["-"]
        THEN FALSE
        ELSE TRUE

\* the loop of read_u32 from position read with accumulator n
RECURSIVE ReadU32Loop(_, _, _)
ReadU32Loop(bs, read, n) ==
  IF read < Len(bs)
    THEN LET c == At(bs, read)
         IN  IF NotDigit(c)
               THEN [err |-> TRUE, n |-> n]
               ELSE ReadU32Loop(bs, read + 1, MulAddU32(n, c - Chr["0"]))
    ELSE [err |-> FALSE, n |-> n]

\* read_u32 with the test `c < b'0'` alone
read_u32_NoUpperTest(bs) ==
  ReadU32Loop_NoUpperTest(bs, 0, [hi |-> 0, lo |-> 0, ovf |-> FALSE])

\* read_u32(bs): err, or the number n (in limbs, with its overflow flag)
read_u32(bs) == ReadU32Loop(bs, 0, [hi |-> 0, lo |-> 0, ovf |-> FALSE])

\* the loop of read_nano from position read with accumulator n
RECURSIVE ReadNanoLoop(_, _, _)
ReadNanoLoop(bs, read, n) ==
  IF read < Len(bs) /\ read <= 9
    THEN LET c == At(bs, read)
         IN  IF NotDigit(c)
               THEN [n |-> n, read |-> read]
               ELSE ReadNanoLoop(bs, read + 1, MulAddU32(n, c - Chr["0"]))
    ELSE [n |-> n, read |-> read]

\* read_nano without the padding of lines 357-359
read_nano_NoPadding(bs) ==
  LET r == ReadNanoLoop(bs, 0, [hi |-> 0, lo |-> 0, ovf |-> FALSE])
  IN  [n |-> [hi |-> r.n.hi, lo |-> r.n.lo], read |-> r.read, ovf |-> r.n.ovf]

\* read_nano(bs): (n, read), the u32 n in limbs, and whether the u32
\* overflowed; fewer than nine digits are below 10^8 and padded below 10^9
read_nano(bs) ==
  LET r == ReadNanoLoop(bs, 0, [hi |-> 0, lo |-> 0, ovf |-> FALSE])
  IN  [n |-> IF r.read < 9 THEN U32Of(U32Int(r.n) * 10^(9 - r.read))
                           ELSE [hi |-> r.n.hi, lo |-> r.n.lo],
       read |-> r.read,
       ovf |-> r.n.ovf]

\* a continuation byte of UTF-8
Cont(b) == 128 <= b /\ b <= 191

\* the length of the well-formed UTF-8 character bs starts with, 0 if none
Utf8CharLen(bs) ==
  LET n == Len(bs)
      b0 == bs[1]
  IN  CASE b0 < 128 -> 1
        [] 194 <= b0 /\ b0 <= 223 ->
             IF n >= 2 /\ Cont(bs[2]) THEN 2 ELSE 0
        [] 224 <= b0 /\ b0 <= 239 ->
             IF /\ n >= 3 /\ Cont(bs[2]) /\ Cont(bs[3])
                /\ (b0 = 224 => bs[2] >= 160)
                /\ (b0 = 237 => bs[2] <= 159)
               THEN 3 ELSE 0
        [] 240 <= b0 /\ b0 <= 244 ->
             IF /\ n >= 4 /\ Cont(bs[2]) /\ Cont(bs[3]) /\ Cont(bs[4])
                /\ (b0 = 240 => bs[2] >= 144)
                /\ (b0 = 244 => bs[2] <= 143)
               THEN 4 ELSE 0
        [] OTHER -> 0

\* std::str::from_utf8(bs).is_ok()
RECURSIVE from_utf8_ok(_)
from_utf8_ok(bs) ==
  IF Len(bs) = 0
    THEN TRUE
    ELSE IF Utf8CharLen(bs) = 0
      THEN FALSE
      ELSE from_utf8_ok(SliceFrom(bs, Utf8CharLen(bs)))

\* ParseTail that answers InvalidValue when from_timetuple returns None
ParseTail_NoneInvalidValue(bs, year, month, day, hour, minute, second, overflow_checks) ==
  LET size == Len(bs)
      dot == size > DATE_TIME_FORMAT_WITH_TIME
               /\ At(bs, DATE_TIME_FORMAT_WITH_TIME) = Chr["."]
      rn == read_nano(SliceFrom(bs, DATE_TIME_FORMAT_WITH_TIME + 1))
      nano == IF dot THEN rn.n ELSE U32Of(0)
      tz_start == IF dot THEN DATE_TIME_FORMAT_WITH_TIME + 1 + rn.read
                         ELSE DATE_TIME_FORMAT_WITH_TIME
      tzbytes == IF size > DATE_TIME_FORMAT_WITH_TIME
                   THEN SliceFrom(bs, tz_start) ELSE <<>>
      tz == TimeZoneFromStr(tzbytes)
      t == IF ~U32InRange(nano, 0, 1000000000 - 1)
             THEN None
             ELSE FromTimetuple(year, month, day, hour, minute, second, U32Int(nano),
                                tz.offset)
  IN  IF dot /\ rn.ovf /\ overflow_checks
        THEN Panic
        ELSE IF dot /\ rn.read = 0
          THEN Err("MissingValue")
          ELSE IF ~from_utf8_ok(tzbytes)
            THEN ErrInvalidTimezone
            ELSE IF tz.tag = "Err"
              THEN tz
              ELSE IF t.tag = "None"
                THEN Err("InvalidValue")
                ELSE OkTime(t.sec, t.nano)

\* parse_rfc3339(s), lines 267-293: the fraction, the zone and the tuple,
\* once the fixed fields are decoded.  A nano beyond 999999999, for which
\* from_timetuple returns None (lines 86-93), is tested for in limbs: it may
\* be 2^31 or more.
ParseTail(bs, year, month, day, hour, minute, second, overflow_checks) ==
  LET size == Len(bs)
      dot == size > DATE_TIME_FORMAT_WITH_TIME
               /\ At(bs, DATE_TIME_FORMAT_WITH_TIME) = Chr["."]
      rn == read_nano(SliceFrom(bs, DATE_TIME_FORMAT_WITH_TIME + 1))
      nano == IF dot THEN rn.n ELSE U32Of(0)
      tz_start == IF dot THEN DATE_TIME_FORMAT_WITH_TIME + 1 + rn.read
                         ELSE DATE_TIME_FORMAT_WITH_TIME
      tzbytes == IF size > DATE_TIME_FORMAT_WITH_TIME
                   THEN SliceFrom(bs, tz_start) ELSE <<>>
      tz == TimeZoneFromStr(tzbytes)
      t == IF ~U32InRange(nano, 0, 1000000000 - 1)
             THEN None
             ELSE FromTimetuple(year, month, day, hour, minute, second, U32Int(nano),
                                tz.offset)
  IN  IF dot /\ rn.ovf /\ overflow_checks
        THEN Panic
        ELSE IF dot /\ rn.read = 0
          THEN Err("MissingValue")
          ELSE IF ~from_utf8_ok(tzbytes)
            THEN ErrInvalidTimezone
            ELSE IF tz.tag = "Err"
              THEN tz
              ELSE IF t.tag = "None"
                THEN Err("Overflow")
                ELSE OkTime(t.sec, t.nano)

\* the length of the trimmed input passes lines 232-244
Accepted == [tag |-> "Accepted"]

\* LengthClass with `size <= DATE_TIME_FORMAT_MIN_LENGTH` for `<`
LengthClass_MinOffByOne(size) ==
  IF size = 0
    THEN Err("EmptyInput")
    ELSE IF \/ size <= DATE_TIME_FORMAT_MIN_LENGTH
            \/ (size > DATE_TIME_FORMAT_MIN_LENGTH /\ size < DATE_TIME_FORMAT_WITH_TIME)
      THEN ErrTooShort
      ELSE IF size > DATE_TIME_FORMAT_MAX_LENGTH
        THEN ErrTooLong
        ELSE Accepted

\* parse_rfc3339(s), lines 232-244: the error the length of the trimmed
\* input gives, or Accepted
LengthClass(size) ==
  IF size = 0
    THEN Err("EmptyInput")
    ELSE IF \/ size < DATE_TIME_FORMAT_MIN_LENGTH
            \/ (size > DATE_TIME_FORMAT_MIN_LENGTH /\ size < DATE_TIME_FORMAT_WITH_TIME)
      THEN ErrTooShort
      ELSE IF size > DATE_TIME_FORMAT_MAX_LENGTH
        THEN ErrTooLong
        ELSE Accepted

\* parse_rfc3339(s) in a build with (debug) or without (release) overflow
\* checks
parse_rfc3339(s, overflow_checks) ==
  LET bs == Trim(s)
      size == Len(bs)
      year == read_u32(Slice(bs, 0, 4))
      month == read_u32(Slice(bs, 5, 7))
      day == read_u32(Slice(bs, 8, 10))
      timed == size > DATE_TIME_FORMAT_MIN_LENGTH
      hour == read_u32(Slice(bs, DATE_TIME_FORMAT_MIN_LENGTH + 1,
                                 DATE_TIME_FORMAT_MIN_LENGTH + 3))
      minute == read_u32(Slice(bs, DATE_TIME_FORMAT_MIN_LENGTH + 4,
                                   DATE_TIME_FORMAT_MIN_LENGTH + 6))
      second == read_u32(Slice(bs, DATE_TIME_FORMAT_MIN_LENGTH + 7,
                                   DATE_TIME_FORMAT_MIN_LENGTH + 9))
  IN  IF LengthClass(size) # Accepted
        THEN LengthClass(size)
            ELSE IF ~check_pattern(bs)
              THEN ErrMalformed
              ELSE IF year.err \/ month.err \/ day.err
                THEN Err("InvalidValue")
                ELSE IF timed /\ (hour.err \/ minute.err \/ second.err)
                  THEN Err("InvalidValue")
                  ELSE ParseTail(bs, U32Int(year.n), U32Int(month.n), U32Int(day.n),
                                 IF timed THEN U32Int(hour.n) ELSE 0,
                                 IF timed THEN U32Int(minute.n) ELSE 0,
                                 IF timed THEN U32Int(second.n) ELSE 0,
                                 overflow_checks)

(***************************************************************************)
(* u64 in limbs of three decimal digits                                     *)
(***************************************************************************)

\* a natural number is WideLen limbs of base WideBase, the lowest first; the
\* width holds every value the parser and the claims compute (42 digits)
WideBase == 1000
WideLen == 14

\* the limbs of raw, which may exceed the base, from limb i on with the carry
\* brought in
RECURSIVE WCarry(_, _, _)
WCarry(raw, i, carry) ==
  IF i > WideLen
    THEN <<>>
    ELSE LET v == raw[i] + carry
         IN  <<v % WideBase>> \o WCarry(raw, i + 1, v \div WideBase)

\* the wide number of an integer 0 <= n < 2^31
WFromInt(n) ==
  << n % WideBase, (n \div WideBase) % WideBase,
     (n \div (WideBase * WideBase)) % WideBase,
     n \div (WideBase * WideBase * WideBase),
     0, 0, 0, 0, 0, 0, 0, 0, 0, 0 >>

\* a + b
WAdd(a, b) == WCarry([i \in 1..WideLen |-> a[i] + b[i]], 1, 0)

\* the highest limb of a that is not 0, from limb i down; 0 for the number 0
RECURSIVE WTop(_, _)
WTop(a, i) == IF i = 0 \/ a[i] # 0 THEN i ELSE WTop(a, i - 1)

\* a[lo]*b[i-lo+1] + ... + a[hi]*b[i-hi+1]
RECURSIVE WConv(_, _, _, _, _)
WConv(a, b, i, lo, hi) ==
  IF lo > hi THEN 0 ELSE a[lo] * b[i - lo + 1] + WConv(a, b, i, lo + 1, hi)

\* a * b: limb i is the sum of a[j]*b[i-j+1] over the limbs that are not 0
WMul(a, b) ==
  LET ta == WTop(a, WideLen)
      tb == WTop(b, WideLen)
  IN  WCarry([i \in 1..WideLen |->
                WConv(a, b, i, IF i - tb + 1 > 1 THEN i - tb + 1 ELSE 1,
                               IF i < ta THEN i ELSE ta)], 1, 0)

\* a < b from limb i down
RECURSIVE WLessFrom(_, _, _)
WLessFrom(a, b, i) ==
  IF i = 0
    THEN FALSE
    ELSE IF a[i] # b[i] THEN a[i] < b[i] ELSE WLessFrom(a, b, i - 1)

\* a < b
WLess(a, b) == WLessFrom(a, b, WideLen)

\* u64::MAX = 18446744073709551615
U64_MAX == << 615, 551, 709, 73, 744, 446, 18, 0, 0, 0, 0, 0, 0, 0 >>

\* u64::checked_mul: none when the product exceeds u64::MAX
checked_mul(a, b) ==
  LET p == WMul(a, b) IN [none |-> WLess(U64_MAX, p), v |-> p]

\* checked_add that never reports an overflow
checked_add_NoCheck(a, b) == [none |-> FALSE, v |-> WAdd(a, b)]

\* u64::checked_add: none when the sum exceeds u64::MAX
checked_add(a, b) ==
  LET p == WAdd(a, b) IN [none |-> WLess(U64_MAX, p), v |-> p]

(***************************************************************************)
(* duration/mod.rs: parse                                                   *)
(***************************************************************************)

DIGIT_MIN == 48
DIGIT_MAX == 57

\* Ok(Duration) of secs (wide) and nanos < 10^9
OkDuration(secs, nanos) == [tag |-> "Ok", secs |-> secs, nanos |-> nanos]

\* Duration::from_nanos(value): secs = value / 10^9, nanos = value % 10^9
from_nanos(value) ==
  OkDuration(SubSeq(value, 4, WideLen) \o <<0, 0, 0>>,
             value[1] + WideBase * value[2] + WideBase * WideBase * value[3])

\* the nanoseconds of ns, us, ms, s, m, h, d
NANOS ==
  << WFromInt(1),
     WFromInt(1000),
     WFromInt(1000000),
     WFromInt(1000000000),
     WMul(WFromInt(60), WFromInt(1000000000)),
     WMul(WFromInt(3600), WFromInt(1000000000)),
     WMul(WFromInt(24 * 3600), WFromInt(1000000000)) >>

\* the loop of read_int from `read` on with the value v: the error if any,
\* the value and the bytes read
RECURSIVE ReadIntLoop(_, _, _)
ReadIntLoop(bs, read, v) ==
  IF read < Len(bs) /\ ~(At(bs, read) < DIGIT_MIN \/ At(bs, read) > DIGIT_MAX)
    THEN LET m == checked_mul(v, WFromInt(10))
             a == checked_add(m.v, WFromInt(At(bs, read) - DIGIT_MIN))
         IN  IF m.none \/ a.none
               THEN [err |-> "Overflow", v |-> v, read |-> read]
               ELSE ReadIntLoop(bs, read + 1, a.v)
    ELSE [err |-> "", v |-> v, read |-> read]

\* read_int without the test for an empty run of digits
read_int_NoMissingValue(bs) == ReadIntLoop(bs, 0, WFromInt(0))

\* read_int(bs)
read_int(bs) ==
  LET r == ReadIntLoop(bs, 0, WFromInt(0))
  IN  IF r.err # ""
        THEN r
        ELSE IF r.read = 0
          THEN [err |-> "MissingValue", v |-> r.v, read |-> 0]
          ELSE r

\* the loop of read_unit: the bytes up to the first digit
RECURSIVE ReadUnitLoop(_, _)
ReadUnitLoop(bs, read) ==
  IF read < Len(bs) /\ ~(DIGIT_MIN <= At(bs, read) /\ At(bs, read) <= DIGIT_MAX)
    THEN ReadUnitLoop(bs, read + 1)
    ELSE read

\* read_unit(bs)
read_unit(bs) ==
  LET read == ReadUnitLoop(bs, 0)
  IN  IF read = 0
        THEN [err |-> "MissingUnit", unit |-> <<>>, read |-> 0]
        ELSE IF ~from_utf8_ok(Slice(bs, 0, read))
          THEN [err |-> "InvalidUnit", unit |-> <<>>, read |-> read]
          ELSE [err |-> "", unit |-> Trim(Slice(bs, 0, read)), read |-> read]

\* unit_to_nanos(unit): the index into NANOS, 0 for no unit
unit_to_nanos(unit) ==
  CASE unit = <<110, 115>> -> 1    \* "ns"
    [] unit = <<117, 115>> -> 2    \* "us"
    [] unit = <<109, 115>> -> 3    \* "ms"
    [] unit = <<115>> -> 4         \* "s"
    [] unit = <<109>> -> 5         \* "m"
    [] unit = <<104>> -> 6         \* "h"
    [] unit = <<100>> -> 7         \* "d"
    [] OTHER -> 0

\* the loop of parse, lines 53-66, from `read` on with the value so far
RECURSIVE DurationLoop(_, _, _)
DurationLoop(bs, read, value) ==
  IF read < Len(bs)
    THEN
      LET ri == read_int(SliceFrom(bs, read))
          ru == read_unit(SliceFrom(bs, read + ri.read))
          u == unit_to_nanos(ru.unit)
          m == checked_mul(ri.v, NANOS[u])
          a == checked_add(value, m.v)
      IN  IF ri.err # ""
            THEN Err(ri.err)
            ELSE IF ru.err # ""
              THEN Err(ru.err)
              ELSE IF u = 0
                THEN Err("InvalidUnit")
                ELSE IF m.none \/ a.none
                  THEN Err("Overflow")
                  ELSE DurationLoop(bs, read + ri.read + ru.read, a.v)
    ELSE from_nanos(value)

\* duration::parse(s)
duration_parse(s) ==
  LET input == Trim(s)
  IN  IF Len(input) = 0
        THEN Err("EmptyInput")
        ELSE IF input = <<DIGIT_MIN>>
          THEN OkDuration(WFromInt(0), 0)
          ELSE DurationLoop(input, 0, WFromInt(0))

(***************************************************************************)
(* num/mod.rs, num/checked.rs and bytes/mod.rs: Bytes::<T>::from_str        *)
(*                                                                          *)
(* An integer of a type T is its sign and its magnitude, a wide number.     *)
(* isize and usize are the 64-bit types of a 64-bit target.  The types i128 *)
(* and u128 of cfg(has_i128) are left out.                                  *)
(***************************************************************************)

IntTypes == {"i8", "u8", "i16", "u16", "i32", "u32", "i64", "u64", "isize", "usize"}

\* T is a signed type
IsSigned(T) == T \in {"i8", "i16", "i32", "i64", "isize"}

\* $dst::MAX
IntMax(T) ==
  CASE T = "i8" -> << 127, 0, 0, 0, 0, 0, 0, 0, 0, 0, 0, 0, 0, 0 >>
    [] T = "u8" -> << 255, 0, 0, 0, 0, 0, 0, 0, 0, 0, 0, 0, 0, 0 >>
    [] T = "i16" -> << 767, 32, 0, 0, 0, 0, 0, 0, 0, 0, 0, 0, 0, 0 >>
    [] T = "u16" -> << 535, 65, 0, 0, 0, 0, 0, 0, 0, 0, 0, 0, 0, 0 >>
    [] T = "i32" -> << 647, 483, 147, 2, 0, 0, 0, 0, 0, 0, 0, 0, 0, 0 >>
    [] T = "u32" -> << 295, 967, 294, 4, 0, 0, 0, 0, 0, 0, 0, 0, 0, 0 >>
    [] T \in {"i64", "isize"} -> << 807, 775, 854, 36, 372, 223, 9, 0, 0, 0, 0, 0, 0, 0 >>
    [] T \in {"u64", "usize"} -> U64_MAX

\* the largest magnitude of a value of T of the given sign: MAX, and
\* -(MIN) = MAX + 1 for a negative value
IntLimit(T, neg) == IF neg THEN WAdd(IntMax(T), WFromInt(1)) ELSE IntMax(T)

\* an integer of sign and magnitude, the zero never negative
IntOf(neg, mag) == [neg |-> neg /\ mag # WFromInt(0), mag |-> mag]

\* Int::from_u64(n) for T: none unless n <= T::MAX
from_u64(T, n) == [none |-> WLess(IntMax(T), n), v |-> IntOf(FALSE, n)]

\* <T>::checked_mul(value, rhs): none when the product is outside MIN..MAX
int_checked_mul(T, value, rhs) ==
  LET p == WMul(value.mag, rhs.mag)
      neg == value.neg # rhs.neg
  IN  [none |-> WLess(IntLimit(T, neg), p), v |-> IntOf(neg, p)]

\* the digit loop of <T as FromStr>::from_str from the 0-based index i on: the
\* magnitude, or an error at a byte that is no digit or once the value leaves
\* the range of T
RECURSIVE IntFromStrLoop(_, _, _, _)
IntFromStrLoop(limit, bs, i, v) ==
  IF i >= Len(bs)
    THEN [err |-> FALSE, mag |-> v]
    ELSE IF At(bs, i) < 48 \/ At(bs, i) > 57
      THEN [err |-> TRUE, mag |-> v]
      ELSE LET a == WAdd(WMul(v, WFromInt(10)), WFromInt(At(bs, i) - 48))
           IN  IF WLess(limit, a)
                 THEN [err |-> TRUE, mag |-> v]
                 ELSE IntFromStrLoop(limit, bs, i + 1, a)

\* vstr.parse::<T>(): an optional '+', or '-' for a signed T, then one or more
\* digits of a value in the range of T
int_from_str(T, src) ==
  IF Len(src) = 0
    THEN [err |-> TRUE, v |-> IntOf(FALSE, WFromInt(0))]
    ELSE
      LET neg == At(src, 0) = 45 /\ IsSigned(T)
          digits == IF At(src, 0) = 43 \/ neg THEN SliceFrom(src, 1) ELSE src
          r == IntFromStrLoop(IntLimit(T, neg), digits, 0, WFromInt(0))
      IN  IF Len(digits) = 0
            THEN [err |-> TRUE, v |-> IntOf(FALSE, WFromInt(0))]
            ELSE [err |-> r.err, v |-> IntOf(neg, r.mag)]

IBYTES ==
  << << 1, 0, 0, 0, 0, 0, 0, 0, 0, 0, 0, 0, 0, 0 >>,
     << 24, 1, 0, 0, 0, 0, 0, 0, 0, 0, 0, 0, 0, 0 >>,
     << 576, 48, 1, 0, 0, 0, 0, 0, 0, 0, 0, 0, 0, 0 >>,
     << 824, 741, 73, 1, 0, 0, 0, 0, 0, 0, 0, 0, 0, 0 >>,
     << 776, 627, 511, 99, 1, 0, 0, 0, 0, 0, 0, 0, 0, 0 >>,
     << 624, 842, 906, 899, 125, 1, 0, 0, 0, 0, 0, 0, 0, 0 >>,
     << 976, 846, 606, 504, 921, 152, 1, 0, 0, 0, 0, 0, 0, 0 >> >>

BYTES ==
  << << 1, 0, 0, 0, 0, 0, 0, 0, 0, 0, 0, 0, 0, 0 >>,
     << 0, 1, 0, 0, 0, 0, 0, 0, 0, 0, 0, 0, 0, 0 >>,
     << 0, 0, 1, 0, 0, 0, 0, 0, 0, 0, 0, 0, 0, 0 >>,
     << 0, 0, 0, 1, 0, 0, 0, 0, 0, 0, 0, 0, 0, 0 >>,
     << 0, 0, 0, 0, 1, 0, 0, 0, 0, 0, 0, 0, 0, 0 >>,
     << 0, 0, 0, 0, 0, 1, 0, 0, 0, 0, 0, 0, 0, 0 >>,
     << 0, 0, 0, 0, 0, 0, 1, 0, 0, 0, 0, 0, 0, 0 >> >>

\* the variants of Unit
Units ==
  << "Byte", "KiByte", "MiByte", "GiByte", "TiByte", "PiByte", "EiByte",
     "KByte", "MByte", "GByte", "TByte", "PByte", "EByte" >>

\* the index of a variant in Units
UnitIndex(unit) == CHOOSE i \in 1..13 : Units[i] = unit

\* Unit::size::<T>(): none for Err(Overflow)
Unit_size(unit, T) ==
  LET i == UnitIndex(unit)
  IN  from_u64(T, IF i <= 7 THEN IBYTES[i] ELSE BYTES[i - 6])

\* <Unit as FromStr>::from_str(s): the variant, "" for Err(InvalidUnit)
Unit_from_str(s) ==
  CASE s = <<>> \/ s = <<98>> -> "Byte"
    [] s = <<107, 105>> \/ s = <<107, 105, 98>> -> "KiByte"
    [] s = <<109, 105>> \/ s = <<109, 105, 98>> -> "MiByte"
    [] s = <<103, 105>> \/ s = <<103, 105, 98>> -> "GiByte"
    [] s = <<116, 105>> \/ s = <<116, 105, 98>> -> "TiByte"
    [] s = <<112, 105>> \/ s = <<112, 105, 98>> -> "PiByte"
    [] s = <<101, 105>> \/ s = <<101, 105, 98>> -> "EiByte"
    [] s = <<107>> \/ s = <<107, 98>> -> "KByte"
    [] s = <<109>> \/ s = <<109, 98>> -> "MByte"
    [] s = <<103>> \/ s = <<103, 98>> -> "GByte"
    [] s = <<116>> \/ s = <<116, 98>> -> "TByte"
    [] s = <<112>> \/ s = <<112, 98>> -> "PByte"
    [] s = <<101>> \/ s = <<101, 98>> -> "EByte"
    [] OTHER -> ""

\* Ok(Bytes(size))
OkBytes(size) == [tag |-> "Ok", neg |-> size.neg, size |-> size.mag]

\* Bytes::new(value, unit)
Bytes_new(T, value, unit) ==
  LET unit_size == Unit_size(unit, T)
      size == int_checked_mul(T, value, unit_size.v)
  IN  IF unit_size.none
        THEN Err("Overflow")
        ELSE IF size.none THEN Err("Overflow") ELSE OkBytes(size.v)

\* the code point of the character ch, well-formed UTF-8
Utf8Decode(ch) ==
  CASE Len(ch) = 1 -> ch[1]
    [] Len(ch) = 2 -> (ch[1] - 192) * 64 + (ch[2] - 128)
    [] Len(ch) = 3 -> (ch[1] - 224) * 4096 + (ch[2] - 128) * 64 + (ch[3] - 128)
    [] Len(ch) = 4 ->
         (ch[1] - 240) * 262144 + (ch[2] - 128) * 4096 + (ch[3] - 128) * 64 + (ch[4] - 128)

\* the UTF-8 of the code point cp
Utf8Encode(cp) ==
  IF cp < 128
    THEN <<cp>>
    ELSE IF cp < 2048
      THEN <<192 + (cp \div 64), 128 + (cp % 64)>>
      ELSE IF cp < 65536
        THEN <<224 + (cp \div 4096), 128 + ((cp \div 64) % 64), 128 + (cp % 64)>>
        ELSE <<240 + (cp \div 262144), 128 + ((cp \div 4096) % 64),
               128 + ((cp \div 64) % 64), 128 + (cp % 64)>>

\* cp is in one of the ranges <<first, last>> of R
InRanges(cp, R) == \E r \in R : r[1] <= cp /\ cp <= r[2]

\* The tables of the standard library are those of the Unicode version of the
\* toolchain; the crate names none.  The tables here are those of Unicode 15.0;
\* what a later version makes of the code points 15.0 leaves unassigned, and
\* of the assigned ones whose properties Unicode 16.0 and 17.0 change, is the
\* choice of the build, the record "later" of the definitions below:
\* later.alphabetic, later.cased and later.ignorable are the sets of the code
\* points the build adds to Alphabetic, Cased and Case_Ignorable,
\* later.uncased and later.unignorable those it takes out of Cased and
\* Case_Ignorable, and later.lower gives, for code points of later.cased, the
\* distance to their lower case.
\*
\* the ranges of the code points beyond ASCII with the property Alphabetic
Alphabetic ==
  { <<170, 170>>, <<181, 181>>, <<186, 186>>, <<192, 214>>, <<216, 246>>, <<248, 705>>,
    <<710, 721>>, <<736, 740>>, <<748, 748>>, <<750, 750>>, <<837, 837>>, <<880, 884>>,
    <<886, 887>>, <<890, 893>>, <<895, 895>>, <<902, 902>>, <<904, 906>>, <<908, 908>>,
    <<910, 929>>, <<931, 1013>>, <<1015, 1153>>, <<1162, 1327>>, <<1329, 1366>>,
    <<1369, 1369>>, <<1376, 1416>>, <<1456, 1469>>, <<1471, 1471>>, <<1473, 1474>>,
    <<1476, 1477>>, <<1479, 1479>>, <<1488, 1514>>, <<1519, 1522>>, <<1552, 1562>>,
    <<1568, 1623>>, <<1625, 1631>>, <<1646, 1747>>, <<1749, 1756>>, <<1761, 1768>>,
    <<1773, 1775>>, <<1786, 1788>>, <<1791, 1791>>, <<1808, 1855>>, <<1869, 1969>>,
    <<1994, 2026>>, <<2036, 2037>>, <<2042, 2042>>, <<2048, 2071>>, <<2074, 2092>>,
    <<2112, 2136>>, <<2144, 2154>>, <<2160, 2183>>, <<2185, 2190>>, <<2208, 2249>>,
    <<2260, 2271>>, <<2275, 2281>>, <<2288, 2363>>, <<2365, 2380>>, <<2382, 2384>>,
    <<2389, 2403>>, <<2417, 2435>>, <<2437, 2444>>, <<2447, 2448>>, <<2451, 2472>>,
    <<2474, 2480>>, <<2482, 2482>>, <<2486, 2489>>, <<2493, 2500>>, <<2503, 2504>>,
    <<2507, 2508>>, <<2510, 2510>>, <<2519, 2519>>, <<2524, 2525>>, <<2527, 2531>>,
    <<2544, 2545>>, <<2556, 2556>>, <<2561, 2563>>, <<2565, 2570>>, <<2575, 2576>>,
    <<2579, 2600>>, <<2602, 2608>>, <<2610, 2611>>, <<2613, 2614>>, <<2616, 2617>>,
    <<2622, 2626>>, <<2631, 2632>>, <<2635, 2636>>, <<2641, 2641>>, <<2649, 2652>>,
    <<2654, 2654>>, <<2672, 2677>>, <<2689, 2691>>, <<2693, 2701>>, <<2703, 2705>>,
    <<2707, 2728>>, <<2730, 2736>>, <<2738, 2739>>, <<2741, 2745>>, <<2749, 2757>>,
    <<2759, 2761>>, <<2763, 2764>>, <<2768, 2768>>, <<2784, 2787>>, <<2809, 2812>>,
    <<2817, 2819>>, <<2821, 2828>>, <<2831, 2832>>, <<2835, 2856>>, <<2858, 2864>>,
    <<2866, 2867>>, <<2869, 2873>>, <<2877, 2884>>, <<2887, 2888>>, <<2891, 2892>>,
    <<2902, 2903>>, <<2908, 2909>>, <<2911, 2915>>, <<2929, 2929>>, <<2946, 2947>>,
    <<2949, 2954>>, <<2958, 2960>>, <<2962, 2965>>, <<2969, 2970>>, <<2972, 2972>>,
    <<2974, 2975>>, <<2979, 2980>>, <<2984, 2986>>, <<2990, 3001>>, <<3006, 3010>>,
    <<3014, 3016>>, <<3018, 3020>>, <<3024, 3024>>, <<3031, 3031>>, <<3072, 3084>>,
    <<3086, 3088>>, <<3090, 3112>>, <<3114, 3129>>, <<3133, 3140>>, <<3142, 3144>>,
    <<3146, 3148>>, <<3157, 3158>>, <<3160, 3162>>, <<3165, 3165>>, <<3168, 3171>>,
    <<3200, 3203>>, <<3205, 3212>>, <<3214, 3216>>, <<3218, 3240>>, <<3242, 3251>>,
    <<3253, 3257>>, <<3261, 3268>>, <<3270, 3272>>, <<3274, 3276>>, <<3285, 3286>>,
    <<3293, 3294>>, <<3296, 3299>>, <<3313, 3315>>, <<3328, 3340>>, <<3342, 3344>>,
    <<3346, 3386>>, <<3389, 3396>>, <<3398, 3400>>, <<3402, 3404>>, <<3406, 3406>>,
    <<3412, 3415>>, <<3423, 3427>>, <<3450, 3455>>, <<3457, 3459>>, <<3461, 3478>>,
    <<3482, 3505>>, <<3507, 3515>>, <<3517, 3517>>, <<3520, 3526>>, <<3535, 3540>>,
    <<3542, 3542>>, <<3544, 3551>>, <<3570, 3571>>, <<3585, 3642>>, <<3648, 3654>>,
    <<3661, 3661>>, <<3713, 3714>>, <<3716, 3716>>, <<3718, 3722>>, <<3724, 3747>>,
    <<3749, 3749>>, <<3751, 3769>>, <<3771, 3773>>, <<3776, 3780>>, <<3782, 3782>>,
    <<3789, 3789>>, <<3804, 3807>>, <<3840, 3840>>, <<3904, 3911>>, <<3913, 3948>>,
    <<3953, 3971>>, <<3976, 3991>>, <<3993, 4028>>, <<4096, 4150>>, <<4152, 4152>>,
    <<4155, 4159>>, <<4176, 4239>>, <<4250, 4253>>, <<4256, 4293>>, <<4295, 4295>>,
    <<4301, 4301>>, <<4304, 4346>>, <<4348, 4680>>, <<4682, 4685>>, <<4688, 4694>>,
    <<4696, 4696>>, <<4698, 4701>>, <<4704, 4744>>, <<4746, 4749>>, <<4752, 4784>>,
    <<4786, 4789>>, <<4792, 4798>>, <<4800, 4800>>, <<4802, 4805>>, <<4808, 4822>>,
    <<4824, 4880>>, <<4882, 4885>>, <<4888, 4954>>, <<4992, 5007>>, <<5024, 5109>>,
    <<5112, 5117>>, <<5121, 5740>>, <<5743, 5759>>, <<5761, 5786>>, <<5792, 5866>>,
    <<5870, 5880>>, <<5888, 5907>>, <<5919, 5939>>, <<5952, 5971>>, <<5984, 5996>>,
    <<5998, 6000>>, <<6002, 6003>>, <<6016, 6067>>, <<6070, 6088>>, <<6103, 6103>>,
    <<6108, 6108>>, <<6176, 6264>>, <<6272, 6314>>, <<6320, 6389>>, <<6400, 6430>>,
    <<6432, 6443>>, <<6448, 6456>>, <<6480, 6509>>, <<6512, 6516>>, <<6528, 6571>>,
    <<6576, 6601>>, <<6656, 6683>>, <<6688, 6750>>, <<6753, 6772>>, <<6823, 6823>>,
    <<6847, 6848>>, <<6860, 6862>>, <<6912, 6963>>, <<6965, 6979>>, <<6981, 6988>>,
    <<7040, 7081>>, <<7084, 7087>>, <<7098, 7141>>, <<7143, 7153>>, <<7168, 7222>>,
    <<7245, 7247>>, <<7258, 7293>>, <<7296, 7304>>, <<7312, 7354>>, <<7357, 7359>>,
    <<7401, 7404>>, <<7406, 7411>>, <<7413, 7414>>, <<7418, 7418>>, <<7424, 7615>>,
    <<7655, 7668>>, <<7680, 7957>>, <<7960, 7965>>, <<7968, 8005>>, <<8008, 8013>>,
    <<8016, 8023>>, <<8025, 8025>>, <<8027, 8027>>, <<8029, 8029>>, <<8031, 8061>>,
    <<8064, 8116>>, <<8118, 8124>>, <<8126, 8126>>, <<8130, 8132>>, <<8134, 8140>>,
    <<8144, 8147>>, <<8150, 8155>>, <<8160, 8172>>, <<8178, 8180>>, <<8182, 8188>>,
    <<8305, 8305>>, <<8319, 8319>>, <<8336, 8348>>, <<8450, 8450>>, <<8455, 8455>>,
    <<8458, 8467>>, <<8469, 8469>>, <<8473, 8477>>, <<8484, 8484>>, <<8486, 8486>>,
    <<8488, 8488>>, <<8490, 8493>>, <<8495, 8505>>, <<8508, 8511>>, <<8517, 8521>>,
    <<8526, 8526>>, <<8544, 8584>>, <<9398, 9449>>, <<11264, 11492>>, <<11499, 11502>>,
    <<11506, 11507>>, <<11520, 11557>>, <<11559, 11559>>, <<11565, 11565>>, <<11568, 11623>>,
    <<11631, 11631>>, <<11648, 11670>>, <<11680, 11686>>, <<11688, 11694>>, <<11696, 11702>>,
    <<11704, 11710>>, <<11712, 11718>>, <<11720, 11726>>, <<11728, 11734>>, <<11736, 11742>>,
    <<11744, 11775>>, <<11823, 11823>>, <<12293, 12295>>, <<12321, 12329>>, <<12337, 12341>>,
    <<12344, 12348>>, <<12353, 12438>>, <<12445, 12447>>, <<12449, 12538>>, <<12540, 12543>>,
    <<12549, 12591>>, <<12593, 12686>>, <<12704, 12735>>, <<12784, 12799>>, <<13312, 19903>>,
    <<19968, 42124>>, <<42192, 42237>>, <<42240, 42508>>, <<42512, 42527>>, <<42538, 42539>>,
    <<42560, 42606>>, <<42612, 42619>>, <<42623, 42735>>, <<42775, 42783>>, <<42786, 42888>>,
    <<42891, 42954>>, <<42960, 42961>>, <<42963, 42963>>, <<42965, 42969>>, <<42994, 43013>>,
    <<43015, 43047>>, <<43072, 43123>>, <<43136, 43203>>, <<43205, 43205>>, <<43250, 43255>>,
    <<43259, 43259>>, <<43261, 43263>>, <<43274, 43306>>, <<43312, 43346>>, <<43360, 43388>>,
    <<43392, 43442>>, <<43444, 43455>>, <<43471, 43471>>, <<43488, 43503>>, <<43514, 43518>>,
    <<43520, 43574>>, <<43584, 43597>>, <<43616, 43638>>, <<43642, 43710>>, <<43712, 43712>>,
    <<43714, 43714>>, <<43739, 43741>>, <<43744, 43759>>, <<43762, 43765>>, <<43777, 43782>>,
    <<43785, 43790>>, <<43793, 43798>>, <<43808, 43814>>, <<43816, 43822>>, <<43824, 43866>>,
    <<43868, 43881>>, <<43888, 44010>>, <<44032, 55203>>, <<55216, 55238>>, <<55243, 55291>>,
    <<63744, 64109>>, <<64112, 64217>>, <<64256, 64262>>, <<64275, 64279>>, <<64285, 64296>>,
    <<64298, 64310>>, <<64312, 64316>>, <<64318, 64318>>, <<64320, 64321>>, <<64323, 64324>>,
    <<64326, 64433>>, <<64467, 64829>>, <<64848, 64911>>, <<64914, 64967>>, <<65008, 65019>>,
    <<65136, 65140>>, <<65142, 65276>>, <<65313, 65338>>, <<65345, 65370>>, <<65382, 65470>>,
    <<65474, 65479>>, <<65482, 65487>>, <<65490, 65495>>, <<65498, 65500>>, <<65536, 65547>>,
    <<65549, 65574>>, <<65576, 65594>>, <<65596, 65597>>, <<65599, 65613>>, <<65616, 65629>>,
    <<65664, 65786>>, <<65856, 65908>>, <<66176, 66204>>, <<66208, 66256>>, <<66304, 66335>>,
    <<66349, 66378>>, <<66384, 66426>>, <<66432, 66461>>, <<66464, 66499>>, <<66504, 66511>>,
    <<66513, 66517>>, <<66560, 66717>>, <<66736, 66771>>, <<66776, 66811>>, <<66816, 66855>>,
    <<66864, 66915>>, <<66928, 66938>>, <<66940, 66954>>, <<66956, 66962>>, <<66964, 66965>>,
    <<66967, 66977>>, <<66979, 66993>>, <<66995, 67001>>, <<67003, 67004>>, <<67072, 67382>>,
    <<67392, 67413>>, <<67424, 67431>>, <<67456, 67461>>, <<67463, 67504>>, <<67506, 67514>>,
    <<67584, 67589>>, <<67592, 67592>>, <<67594, 67637>>, <<67639, 67640>>, <<67644, 67644>>,
    <<67647, 67669>>, <<67680, 67702>>, <<67712, 67742>>, <<67808, 67826>>, <<67828, 67829>>,
    <<67840, 67861>>, <<67872, 67897>>, <<67968, 68023>>, <<68030, 68031>>, <<68096, 68099>>,
    <<68101, 68102>>, <<68108, 68115>>, <<68117, 68119>>, <<68121, 68149>>, <<68192, 68220>>,
    <<68224, 68252>>, <<68288, 68295>>, <<68297, 68324>>, <<68352, 68405>>, <<68416, 68437>>,
    <<68448, 68466>>, <<68480, 68497>>, <<68608, 68680>>, <<68736, 68786>>, <<68800, 68850>>,
    <<68864, 68903>>, <<69248, 69289>>, <<69291, 69292>>, <<69296, 69297>>, <<69376, 69404>>,
    <<69415, 69415>>, <<69424, 69445>>, <<69488, 69505>>, <<69552, 69572>>, <<69600, 69622>>,
    <<69632, 69701>>, <<69745, 69749>>, <<69760, 69816>>, <<69826, 69826>>, <<69840, 69864>>,
    <<69888, 69938>>, <<69956, 69959>>, <<69968, 70002>>, <<70006, 70006>>, <<70016, 70079>>,
    <<70081, 70084>>, <<70094, 70095>>, <<70106, 70106>>, <<70108, 70108>>, <<70144, 70161>>,
    <<70163, 70196>>, <<70199, 70199>>, <<70206, 70209>>, <<70272, 70278>>, <<70280, 70280>>,
    <<70282, 70285>>, <<70287, 70301>>, <<70303, 70312>>, <<70320, 70376>>, <<70400, 70403>>,
    <<70405, 70412>>, <<70415, 70416>>, <<70419, 70440>>, <<70442, 70448>>, <<70450, 70451>>,
    <<70453, 70457>>, <<70461, 70468>>, <<70471, 70472>>, <<70475, 70476>>, <<70480, 70480>>,
    <<70487, 70487>>, <<70493, 70499>>, <<70656, 70721>>, <<70723, 70725>>, <<70727, 70730>>,
    <<70751, 70753>>, <<70784, 70849>>, <<70852, 70853>>, <<70855, 70855>>, <<71040, 71093>>,
    <<71096, 71102>>, <<71128, 71133>>, <<71168, 71230>>, <<71232, 71232>>, <<71236, 71236>>,
    <<71296, 71349>>, <<71352, 71352>>, <<71424, 71450>>, <<71453, 71466>>, <<71488, 71494>>,
    <<71680, 71736>>, <<71840, 71903>>, <<71935, 71942>>, <<71945, 71945>>, <<71948, 71955>>,
    <<71957, 71958>>, <<71960, 71989>>, <<71991, 71992>>, <<71995, 71996>>, <<71999, 72002>>,
    <<72096, 72103>>, <<72106, 72151>>, <<72154, 72159>>, <<72161, 72161>>, <<72163, 72164>>,
    <<72192, 72242>>, <<72245, 72254>>, <<72272, 72343>>, <<72349, 72349>>, <<72368, 72440>>,
    <<72704, 72712>>, <<72714, 72758>>, <<72760, 72766>>, <<72768, 72768>>, <<72818, 72847>>,
    <<72850, 72871>>, <<72873, 72886>>, <<72960, 72966>>, <<72968, 72969>>, <<72971, 73014>>,
    <<73018, 73018>>, <<73020, 73021>>, <<73023, 73025>>, <<73027, 73027>>, <<73030, 73031>>,
    <<73056, 73061>>, <<73063, 73064>>, <<73066, 73102>>, <<73104, 73105>>, <<73107, 73110>>,
    <<73112, 73112>>, <<73440, 73462>>, <<73472, 73488>>, <<73490, 73530>>, <<73534, 73536>>,
    <<73648, 73648>>, <<73728, 74649>>, <<74752, 74862>>, <<74880, 75075>>, <<77712, 77808>>,
    <<77824, 78895>>, <<78913, 78918>>, <<82944, 83526>>, <<92160, 92728>>, <<92736, 92766>>,
    <<92784, 92862>>, <<92880, 92909>>, <<92928, 92975>>, <<92992, 92995>>, <<93027, 93047>>,
    <<93053, 93071>>, <<93760, 93823>>, <<93952, 94026>>, <<94031, 94087>>, <<94095, 94111>>,
    <<94176, 94177>>, <<94179, 94179>>, <<94192, 94193>>, <<94208, 100343>>,
    <<100352, 101589>>, <<101632, 101640>>, <<110576, 110579>>, <<110581, 110587>>,
    <<110589, 110590>>, <<110592, 110882>>, <<110898, 110898>>, <<110928, 110930>>,
    <<110933, 110933>>, <<110948, 110951>>, <<110960, 111355>>, <<113664, 113770>>,
    <<113776, 113788>>, <<113792, 113800>>, <<113808, 113817>>, <<113822, 113822>>,
    <<119808, 119892>>, <<119894, 119964>>, <<119966, 119967>>, <<119970, 119970>>,
    <<119973, 119974>>, <<119977, 119980>>, <<119982, 119993>>, <<119995, 119995>>,
    <<119997, 120003>>, <<120005, 120069>>, <<120071, 120074>>, <<120077, 120084>>,
    <<120086, 120092>>, <<120094, 120121>>, <<120123, 120126>>, <<120128, 120132>>,
    <<120134, 120134>>, <<120138, 120144>>, <<120146, 120485>>, <<120488, 120512>>,
    <<120514, 120538>>, <<120540, 120570>>, <<120572, 120596>>, <<120598, 120628>>,
    <<120630, 120654>>, <<120656, 120686>>, <<120688, 120712>>, <<120714, 120744>>,
    <<120746, 120770>>, <<120772, 120779>>, <<122624, 122654>>, <<122661, 122666>>,
    <<122880, 122886>>, <<122888, 122904>>, <<122907, 122913>>, <<122915, 122916>>,
    <<122918, 122922>>, <<122928, 122989>>, <<123023, 123023>>, <<123136, 123180>>,
    <<123191, 123197>>, <<123214, 123214>>, <<123536, 123565>>, <<123584, 123627>>,
    <<124112, 124139>>, <<124896, 124902>>, <<124904, 124907>>, <<124909, 124910>>,
    <<124912, 124926>>, <<124928, 125124>>, <<125184, 125251>>, <<125255, 125255>>,
    <<125259, 125259>>, <<126464, 126467>>, <<126469, 126495>>, <<126497, 126498>>,
    <<126500, 126500>>, <<126503, 126503>>, <<126505, 126514>>, <<126516, 126519>>,
    <<126521, 126521>>, <<126523, 126523>>, <<126530, 126530>>, <<126535, 126535>>,
    <<126537, 126537>>, <<126539, 126539>>, <<126541, 126543>>, <<126545, 126546>>,
    <<126548, 126548>>, <<126551, 126551>>, <<126553, 126553>>, <<126555, 126555>>,
    <<126557, 126557>>, <<126559, 126559>>, <<126561, 126562>>, <<126564, 126564>>,
    <<126567, 126570>>, <<126572, 126578>>, <<126580, 126583>>, <<126585, 126588>>,
    <<126590, 126590>>, <<126592, 126601>>, <<126603, 126619>>, <<126625, 126627>>,
    <<126629, 126633>>, <<126635, 126651>>, <<127280, 127305>>, <<127312, 127337>>,
    <<127344, 127369>>, <<131072, 173791>>, <<173824, 177977>>, <<177984, 178205>>,
    <<178208, 183969>>, <<183984, 191456>>, <<194560, 195101>>, <<196608, 201546>>,
    <<201552, 205743>> }

\* the ranges of the code points beyond ASCII that Unicode 15.0 does not assign
Unassigned ==
  { <<888, 889>>, <<896, 899>>, <<907, 907>>, <<909, 909>>, <<930, 930>>, <<1328, 1328>>,
    <<1367, 1368>>, <<1419, 1420>>, <<1424, 1424>>, <<1480, 1487>>, <<1515, 1518>>,
    <<1525, 1535>>, <<1806, 1806>>, <<1867, 1868>>, <<1970, 1983>>, <<2043, 2044>>,
    <<2094, 2095>>, <<2111, 2111>>, <<2140, 2141>>, <<2143, 2143>>, <<2155, 2159>>,
    <<2191, 2191>>, <<2194, 2199>>, <<2436, 2436>>, <<2445, 2446>>, <<2449, 2450>>,
    <<2473, 2473>>, <<2481, 2481>>, <<2483, 2485>>, <<2490, 2491>>, <<2501, 2502>>,
    <<2505, 2506>>, <<2511, 2518>>, <<2520, 2523>>, <<2526, 2526>>, <<2532, 2533>>,
    <<2559, 2560>>, <<2564, 2564>>, <<2571, 2574>>, <<2577, 2578>>, <<2601, 2601>>,
    <<2609, 2609>>, <<2612, 2612>>, <<2615, 2615>>, <<2618, 2619>>, <<2621, 2621>>,
    <<2627, 2630>>, <<2633, 2634>>, <<2638, 2640>>, <<2642, 2648>>, <<2653, 2653>>,
    <<2655, 2661>>, <<2679, 2688>>, <<2692, 2692>>, <<2702, 2702>>, <<2706, 2706>>,
    <<2729, 2729>>, <<2737, 2737>>, <<2740, 2740>>, <<2746, 2747>>, <<2758, 2758>>,
    <<2762, 2762>>, <<2766, 2767>>, <<2769, 2783>>, <<2788, 2789>>, <<2802, 2808>>,
    <<2816, 2816>>, <<2820, 2820>>, <<2829, 2830>>, <<2833, 2834>>, <<2857, 2857>>,
    <<2865, 2865>>, <<2868, 2868>>, <<2874, 2875>>, <<2885, 2886>>, <<2889, 2890>>,
    <<2894, 2900>>, <<2904, 2907>>, <<2910, 2910>>, <<2916, 2917>>, <<2936, 2945>>,
    <<2948, 2948>>, <<2955, 2957>>, <<2961, 2961>>, <<2966, 2968>>, <<2971, 2971>>,
    <<2973, 2973>>, <<2976, 2978>>, <<2981, 2983>>, <<2987, 2989>>, <<3002, 3005>>,
    <<3011, 3013>>, <<3017, 3017>>, <<3022, 3023>>, <<3025, 3030>>, <<3032, 3045>>,
    <<3067, 3071>>, <<3085, 3085>>, <<3089, 3089>>, <<3113, 3113>>, <<3130, 3131>>,
    <<3141, 3141>>, <<3145, 3145>>, <<3150, 3156>>, <<3159, 3159>>, <<3163, 3164>>,
    <<3166, 3167>>, <<3172, 3173>>, <<3184, 3190>>, <<3213, 3213>>, <<3217, 3217>>,
    <<3241, 3241>>, <<3252, 3252>>, <<3258, 3259>>, <<3269, 3269>>, <<3273, 3273>>,
    <<3278, 3284>>, <<3287, 3292>>, <<3295, 3295>>, <<3300, 3301>>, <<3312, 3312>>,
    <<3316, 3327>>, <<3341, 3341>>, <<3345, 3345>>, <<3397, 3397>>, <<3401, 3401>>,
    <<3408, 3411>>, <<3428, 3429>>, <<3456, 3456>>, <<3460, 3460>>, <<3479, 3481>>,
    <<3506, 3506>>, <<3516, 3516>>, <<3518, 3519>>, <<3527, 3529>>, <<3531, 3534>>,
    <<3541, 3541>>, <<3543, 3543>>, <<3552, 3557>>, <<3568, 3569>>, <<3573, 3584>>,
    <<3643, 3646>>, <<3676, 3712>>, <<3715, 3715>>, <<3717, 3717>>, <<3723, 3723>>,
    <<3748, 3748>>, <<3750, 3750>>, <<3774, 3775>>, <<3781, 3781>>, <<3783, 3783>>,
    <<3791, 3791>>, <<3802, 3803>>, <<3808, 3839>>, <<3912, 3912>>, <<3949, 3952>>,
    <<3992, 3992>>, <<4029, 4029>>, <<4045, 4045>>, <<4059, 4095>>, <<4294, 4294>>,
    <<4296, 4300>>, <<4302, 4303>>, <<4681, 4681>>, <<4686, 4687>>, <<4695, 4695>>,
    <<4697, 4697>>, <<4702, 4703>>, <<4745, 4745>>, <<4750, 4751>>, <<4785, 4785>>,
    <<4790, 4791>>, <<4799, 4799>>, <<4801, 4801>>, <<4806, 4807>>, <<4823, 4823>>,
    <<4881, 4881>>, <<4886, 4887>>, <<4955, 4956>>, <<4989, 4991>>, <<5018, 5023>>,
    <<5110, 5111>>, <<5118, 5119>>, <<5789, 5791>>, <<5881, 5887>>, <<5910, 5918>>,
    <<5943, 5951>>, <<5972, 5983>>, <<5997, 5997>>, <<6001, 6001>>, <<6004, 6015>>,
    <<6110, 6111>>, <<6122, 6127>>, <<6138, 6143>>, <<6170, 6175>>, <<6265, 6271>>,
    <<6315, 6319>>, <<6390, 6399>>, <<6431, 6431>>, <<6444, 6447>>, <<6460, 6463>>,
    <<6465, 6467>>, <<6510, 6511>>, <<6517, 6527>>, <<6572, 6575>>, <<6602, 6607>>,
    <<6619, 6621>>, <<6684, 6685>>, <<6751, 6751>>, <<6781, 6782>>, <<6794, 6799>>,
    <<6810, 6815>>, <<6830, 6831>>, <<6863, 6911>>, <<6989, 6991>>, <<7039, 7039>>,
    <<7156, 7163>>, <<7224, 7226>>, <<7242, 7244>>, <<7305, 7311>>, <<7355, 7356>>,
    <<7368, 7375>>, <<7419, 7423>>, <<7958, 7959>>, <<7966, 7967>>, <<8006, 8007>>,
    <<8014, 8015>>, <<8024, 8024>>, <<8026, 8026>>, <<8028, 8028>>, <<8030, 8030>>,
    <<8062, 8063>>, <<8117, 8117>>, <<8133, 8133>>, <<8148, 8149>>, <<8156, 8156>>,
    <<8176, 8177>>, <<8181, 8181>>, <<8191, 8191>>, <<8293, 8293>>, <<8306, 8307>>,
    <<8335, 8335>>, <<8349, 8351>>, <<8385, 8399>>, <<8433, 8447>>, <<8588, 8591>>,
    <<9255, 9279>>, <<9291, 9311>>, <<11124, 11125>>, <<11158, 11158>>, <<11508, 11512>>,
    <<11558, 11558>>, <<11560, 11564>>, <<11566, 11567>>, <<11624, 11630>>, <<11633, 11646>>,
    <<11671, 11679>>, <<11687, 11687>>, <<11695, 11695>>, <<11703, 11703>>, <<11711, 11711>>,
    <<11719, 11719>>, <<11727, 11727>>, <<11735, 11735>>, <<11743, 11743>>, <<11870, 11903>>,
    <<11930, 11930>>, <<12020, 12031>>, <<12246, 12271>>, <<12284, 12287>>, <<12352, 12352>>,
    <<12439, 12440>>, <<12544, 12548>>, <<12592, 12592>>, <<12687, 12687>>, <<12772, 12783>>,
    <<12831, 12831>>, <<42125, 42127>>, <<42183, 42191>>, <<42540, 42559>>, <<42744, 42751>>,
    <<42955, 42959>>, <<42962, 42962>>, <<42964, 42964>>, <<42970, 42993>>, <<43053, 43055>>,
    <<43066, 43071>>, <<43128, 43135>>, <<43206, 43213>>, <<43226, 43231>>, <<43348, 43358>>,
    <<43389, 43391>>, <<43470, 43470>>, <<43482, 43485>>, <<43519, 43519>>, <<43575, 43583>>,
    <<43598, 43599>>, <<43610, 43611>>, <<43715, 43738>>, <<43767, 43776>>, <<43783, 43784>>,
    <<43791, 43792>>, <<43799, 43807>>, <<43815, 43815>>, <<43823, 43823>>, <<43884, 43887>>,
    <<44014, 44015>>, <<44026, 44031>>, <<55204, 55215>>, <<55239, 55242>>, <<55292, 55295>>,
    <<64110, 64111>>, <<64218, 64255>>, <<64263, 64274>>, <<64280, 64284>>, <<64311, 64311>>,
    <<64317, 64317>>, <<64319, 64319>>, <<64322, 64322>>, <<64325, 64325>>, <<64451, 64466>>,
    <<64912, 64913>>, <<64968, 64974>>, <<64976, 65007>>, <<65050, 65055>>, <<65107, 65107>>,
    <<65127, 65127>>, <<65132, 65135>>, <<65141, 65141>>, <<65277, 65278>>, <<65280, 65280>>,
    <<65471, 65473>>, <<65480, 65481>>, <<65488, 65489>>, <<65496, 65497>>, <<65501, 65503>>,
    <<65511, 65511>>, <<65519, 65528>>, <<65534, 65535>>, <<65548, 65548>>, <<65575, 65575>>,
    <<65595, 65595>>, <<65598, 65598>>, <<65614, 65615>>, <<65630, 65663>>, <<65787, 65791>>,
    <<65795, 65798>>, <<65844, 65846>>, <<65935, 65935>>, <<65949, 65951>>, <<65953, 65999>>,
    <<66046, 66175>>, <<66205, 66207>>, <<66257, 66271>>, <<66300, 66303>>, <<66340, 66348>>,
    <<66379, 66383>>, <<66427, 66431>>, <<66462, 66462>>, <<66500, 66503>>, <<66518, 66559>>,
    <<66718, 66719>>, <<66730, 66735>>, <<66772, 66775>>, <<66812, 66815>>, <<66856, 66863>>,
    <<66916, 66926>>, <<66939, 66939>>, <<66955, 66955>>, <<66963, 66963>>, <<66966, 66966>>,
    <<66978, 66978>>, <<66994, 66994>>, <<67002, 67002>>, <<67005, 67071>>, <<67383, 67391>>,
    <<67414, 67423>>, <<67432, 67455>>, <<67462, 67462>>, <<67505, 67505>>, <<67515, 67583>>,
    <<67590, 67591>>, <<67593, 67593>>, <<67638, 67638>>, <<67641, 67643>>, <<67645, 67646>>,
    <<67670, 67670>>, <<67743, 67750>>, <<67760, 67807>>, <<67827, 67827>>, <<67830, 67834>>,
    <<67868, 67870>>, <<67898, 67902>>, <<67904, 67967>>, <<68024, 68027>>, <<68048, 68049>>,
    <<68100, 68100>>, <<68103, 68107>>, <<68116, 68116>>, <<68120, 68120>>, <<68150, 68151>>,
    <<68155, 68158>>, <<68169, 68175>>, <<68185, 68191>>, <<68256, 68287>>, <<68327, 68330>>,
    <<68343, 68351>>, <<68406, 68408>>, <<68438, 68439>>, <<68467, 68471>>, <<68498, 68504>>,
    <<68509, 68520>>, <<68528, 68607>>, <<68681, 68735>>, <<68787, 68799>>, <<68851, 68857>>,
    <<68904, 68911>>, <<68922, 69215>>, <<69247, 69247>>, <<69290, 69290>>, <<69294, 69295>>,
    <<69298, 69372>>, <<69416, 69423>>, <<69466, 69487>>, <<69514, 69551>>, <<69580, 69599>>,
    <<69623, 69631>>, <<69710, 69713>>, <<69750, 69758>>, <<69827, 69836>>, <<69838, 69839>>,
    <<69865, 69871>>, <<69882, 69887>>, <<69941, 69941>>, <<69960, 69967>>, <<70007, 70015>>,
    <<70112, 70112>>, <<70133, 70143>>, <<70162, 70162>>, <<70210, 70271>>, <<70279, 70279>>,
    <<70281, 70281>>, <<70286, 70286>>, <<70302, 70302>>, <<70314, 70319>>, <<70379, 70383>>,
    <<70394, 70399>>, <<70404, 70404>>, <<70413, 70414>>, <<70417, 70418>>, <<70441, 70441>>,
    <<70449, 70449>>, <<70452, 70452>>, <<70458, 70458>>, <<70469, 70470>>, <<70473, 70474>>,
    <<70478, 70479>>, <<70481, 70486>>, <<70488, 70492>>, <<70500, 70501>>, <<70509, 70511>>,
    <<70517, 70655>>, <<70748, 70748>>, <<70754, 70783>>, <<70856, 70863>>, <<70874, 71039>>,
    <<71094, 71095>>, <<71134, 71167>>, <<71237, 71247>>, <<71258, 71263>>, <<71277, 71295>>,
    <<71354, 71359>>, <<71370, 71423>>, <<71451, 71452>>, <<71468, 71471>>, <<71495, 71679>>,
    <<71740, 71839>>, <<71923, 71934>>, <<71943, 71944>>, <<71946, 71947>>, <<71956, 71956>>,
    <<71959, 71959>>, <<71990, 71990>>, <<71993, 71994>>, <<72007, 72015>>, <<72026, 72095>>,
    <<72104, 72105>>, <<72152, 72153>>, <<72165, 72191>>, <<72264, 72271>>, <<72355, 72367>>,
    <<72441, 72447>>, <<72458, 72703>>, <<72713, 72713>>, <<72759, 72759>>, <<72774, 72783>>,
    <<72813, 72815>>, <<72848, 72849>>, <<72872, 72872>>, <<72887, 72959>>, <<72967, 72967>>,
    <<72970, 72970>>, <<73015, 73017>>, <<73019, 73019>>, <<73022, 73022>>, <<73032, 73039>>,
    <<73050, 73055>>, <<73062, 73062>>, <<73065, 73065>>, <<73103, 73103>>, <<73106, 73106>>,
    <<73113, 73119>>, <<73130, 73439>>, <<73465, 73471>>, <<73489, 73489>>, <<73531, 73533>>,
    <<73562, 73647>>, <<73649, 73663>>, <<73714, 73726>>, <<74650, 74751>>, <<74863, 74863>>,
    <<74869, 74879>>, <<75076, 77711>>, <<77811, 77823>>, <<78934, 82943>>, <<83527, 92159>>,
    <<92729, 92735>>, <<92767, 92767>>, <<92778, 92781>>, <<92863, 92863>>, <<92874, 92879>>,
    <<92910, 92911>>, <<92918, 92927>>, <<92998, 93007>>, <<93018, 93018>>, <<93026, 93026>>,
    <<93048, 93052>>, <<93072, 93759>>, <<93851, 93951>>, <<94027, 94030>>, <<94088, 94094>>,
    <<94112, 94175>>, <<94181, 94191>>, <<94194, 94207>>, <<100344, 100351>>,
    <<101590, 101631>>, <<101641, 110575>>, <<110580, 110580>>, <<110588, 110588>>,
    <<110591, 110591>>, <<110883, 110897>>, <<110899, 110927>>, <<110931, 110932>>,
    <<110934, 110947>>, <<110952, 110959>>, <<111356, 113663>>, <<113771, 113775>>,
    <<113789, 113791>>, <<113801, 113807>>, <<113818, 113819>>, <<113828, 118527>>,
    <<118574, 118575>>, <<118599, 118607>>, <<118724, 118783>>, <<119030, 119039>>,
    <<119079, 119080>>, <<119275, 119295>>, <<119366, 119487>>, <<119508, 119519>>,
    <<119540, 119551>>, <<119639, 119647>>, <<119673, 119807>>, <<119893, 119893>>,
    <<119965, 119965>>, <<119968, 119969>>, <<119971, 119972>>, <<119975, 119976>>,
    <<119981, 119981>>, <<119994, 119994>>, <<119996, 119996>>, <<120004, 120004>>,
    <<120070, 120070>>, <<120075, 120076>>, <<120085, 120085>>, <<120093, 120093>>,
    <<120122, 120122>>, <<120127, 120127>>, <<120133, 120133>>, <<120135, 120137>>,
    <<120145, 120145>>, <<120486, 120487>>, <<120780, 120781>>, <<121484, 121498>>,
    <<121504, 121504>>, <<121520, 122623>>, <<122655, 122660>>, <<122667, 122879>>,
    <<122887, 122887>>, <<122905, 122906>>, <<122914, 122914>>, <<122917, 122917>>,
    <<122923, 122927>>, <<122990, 123022>>, <<123024, 123135>>, <<123181, 123183>>,
    <<123198, 123199>>, <<123210, 123213>>, <<123216, 123535>>, <<123567, 123583>>,
    <<123642, 123646>>, <<123648, 124111>>, <<124154, 124895>>, <<124903, 124903>>,
    <<124908, 124908>>, <<124911, 124911>>, <<124927, 124927>>, <<125125, 125126>>,
    <<125143, 125183>>, <<125260, 125263>>, <<125274, 125277>>, <<125280, 126064>>,
    <<126133, 126208>>, <<126270, 126463>>, <<126468, 126468>>, <<126496, 126496>>,
    <<126499, 126499>>, <<126501, 126502>>, <<126504, 126504>>, <<126515, 126515>>,
    <<126520, 126520>>, <<126522, 126522>>, <<126524, 126529>>, <<126531, 126534>>,
    <<126536, 126536>>, <<126538, 126538>>, <<126540, 126540>>, <<126544, 126544>>,
    <<126547, 126547>>, <<126549, 126550>>, <<126552, 126552>>, <<126554, 126554>>,
    <<126556, 126556>>, <<126558, 126558>>, <<126560, 126560>>, <<126563, 126563>>,
    <<126565, 126566>>, <<126571, 126571>>, <<126579, 126579>>, <<126584, 126584>>,
    <<126589, 126589>>, <<126591, 126591>>, <<126602, 126602>>, <<126620, 126624>>,
    <<126628, 126628>>, <<126634, 126634>>, <<126652, 126703>>, <<126706, 126975>>,
    <<127020, 127023>>, <<127124, 127135>>, <<127151, 127152>>, <<127168, 127168>>,
    <<127184, 127184>>, <<127222, 127231>>, <<127406, 127461>>, <<127491, 127503>>,
    <<127548, 127551>>, <<127561, 127567>>, <<127570, 127583>>, <<127590, 127743>>,
    <<128728, 128731>>, <<128749, 128751>>, <<128765, 128767>>, <<128887, 128890>>,
    <<128986, 128991>>, <<129004, 129007>>, <<129009, 129023>>, <<129036, 129039>>,
    <<129096, 129103>>, <<129114, 129119>>, <<129160, 129167>>, <<129198, 129199>>,
    <<129202, 129279>>, <<129620, 129631>>, <<129646, 129647>>, <<129661, 129663>>,
    <<129673, 129679>>, <<129726, 129726>>, <<129734, 129741>>, <<129756, 129759>>,
    <<129769, 129775>>, <<129785, 129791>>, <<129939, 129939>>, <<129995, 130031>>,
    <<130042, 131071>>, <<173792, 173823>>, <<177978, 177983>>, <<178206, 178207>>,
    <<183970, 183983>>, <<191457, 194559>>, <<195102, 196607>>, <<201547, 201551>>,
    <<205744, 917504>>, <<917506, 917535>>, <<917632, 917759>>, <<918000, 983039>>,
    <<1048574, 1048575>>, <<1114110, 1114111>> }

\* the ranges of the code points with the property Cased
Cased ==
  { <<65, 90>>, <<97, 122>>, <<170, 170>>, <<181, 181>>, <<186, 186>>, <<192, 214>>,
    <<216, 246>>, <<248, 442>>, <<444, 447>>, <<452, 659>>, <<661, 696>>, <<704, 705>>,
    <<736, 740>>, <<837, 837>>, <<880, 883>>, <<886, 887>>, <<890, 893>>, <<895, 895>>,
    <<902, 902>>, <<904, 906>>, <<908, 908>>, <<910, 929>>, <<931, 1013>>, <<1015, 1153>>,
    <<1162, 1327>>, <<1329, 1366>>, <<1376, 1416>>, <<4256, 4293>>, <<4295, 4295>>,
    <<4301, 4301>>, <<4304, 4346>>, <<4348, 4351>>, <<5024, 5109>>, <<5112, 5117>>,
    <<7296, 7304>>, <<7312, 7354>>, <<7357, 7359>>, <<7424, 7615>>, <<7680, 7957>>,
    <<7960, 7965>>, <<7968, 8005>>, <<8008, 8013>>, <<8016, 8023>>, <<8025, 8025>>,
    <<8027, 8027>>, <<8029, 8029>>, <<8031, 8061>>, <<8064, 8116>>, <<8118, 8124>>,
    <<8126, 8126>>, <<8130, 8132>>, <<8134, 8140>>, <<8144, 8147>>, <<8150, 8155>>,
    <<8160, 8172>>, <<8178, 8180>>, <<8182, 8188>>, <<8305, 8305>>, <<8319, 8319>>,
    <<8336, 8348>>, <<8450, 8450>>, <<8455, 8455>>, <<8458, 8467>>, <<8469, 8469>>,
    <<8473, 8477>>, <<8484, 8484>>, <<8486, 8486>>, <<8488, 8488>>, <<8490, 8493>>,
    <<8495, 8500>>, <<8505, 8505>>, <<8508, 8511>>, <<8517, 8521>>, <<8526, 8526>>,
    <<8544, 8575>>, <<8579, 8580>>, <<9398, 9449>>, <<11264, 11492>>, <<11499, 11502>>,
    <<11506, 11507>>, <<11520, 11557>>, <<11559, 11559>>, <<11565, 11565>>, <<42560, 42605>>,
    <<42624, 42653>>, <<42786, 42887>>, <<42891, 42894>>, <<42896, 42954>>, <<42960, 42961>>,
    <<42963, 42963>>, <<42965, 42969>>, <<42994, 42998>>, <<43000, 43002>>, <<43824, 43866>>,
    <<43868, 43881>>, <<43888, 43967>>, <<64256, 64262>>, <<64275, 64279>>, <<65313, 65338>>,
    <<65345, 65370>>, <<66560, 66639>>, <<66736, 66771>>, <<66776, 66811>>, <<66928, 66938>>,
    <<66940, 66954>>, <<66956, 66962>>, <<66964, 66965>>, <<66967, 66977>>, <<66979, 66993>>,
    <<66995, 67001>>, <<67003, 67004>>, <<67456, 67456>>, <<67459, 67461>>, <<67463, 67504>>,
    <<67506, 67514>>, <<68736, 68786>>, <<68800, 68850>>, <<71840, 71903>>, <<93760, 93823>>,
    <<119808, 119892>>, <<119894, 119964>>, <<119966, 119967>>, <<119970, 119970>>,
    <<119973, 119974>>, <<119977, 119980>>, <<119982, 119993>>, <<119995, 119995>>,
    <<119997, 120003>>, <<120005, 120069>>, <<120071, 120074>>, <<120077, 120084>>,
    <<120086, 120092>>, <<120094, 120121>>, <<120123, 120126>>, <<120128, 120132>>,
    <<120134, 120134>>, <<120138, 120144>>, <<120146, 120485>>, <<120488, 120512>>,
    <<120514, 120538>>, <<120540, 120570>>, <<120572, 120596>>, <<120598, 120628>>,
    <<120630, 120654>>, <<120656, 120686>>, <<120688, 120712>>, <<120714, 120744>>,
    <<120746, 120770>>, <<120772, 120779>>, <<122624, 122633>>, <<122635, 122654>>,
    <<122661, 122666>>, <<122928, 122989>>, <<125184, 125251>>, <<127280, 127305>>,
    <<127312, 127337>>, <<127344, 127369>> }

\* the ranges of the code points with the property Case_Ignorable
CaseIgnorable ==
  { <<39, 39>>, <<46, 46>>, <<58, 58>>, <<94, 94>>, <<96, 96>>, <<168, 168>>, <<173, 173>>,
    <<175, 175>>, <<180, 180>>, <<183, 184>>, <<688, 879>>, <<884, 885>>, <<890, 890>>,
    <<900, 901>>, <<903, 903>>, <<1155, 1161>>, <<1369, 1369>>, <<1375, 1375>>, <<1425, 1469>>,
    <<1471, 1471>>, <<1473, 1474>>, <<1476, 1477>>, <<1479, 1479>>, <<1524, 1524>>,
    <<1536, 1541>>, <<1552, 1562>>, <<1564, 1564>>, <<1600, 1600>>, <<1611, 1631>>,
    <<1648, 1648>>, <<1750, 1757>>, <<1759, 1768>>, <<1770, 1773>>, <<1807, 1807>>,
    <<1809, 1809>>, <<1840, 1866>>, <<1958, 1968>>, <<2027, 2037>>, <<2042, 2042>>,
    <<2045, 2045>>, <<2070, 2093>>, <<2137, 2139>>, <<2184, 2184>>, <<2192, 2193>>,
    <<2200, 2207>>, <<2249, 2306>>, <<2362, 2362>>, <<2364, 2364>>, <<2369, 2376>>,
    <<2381, 2381>>, <<2385, 2391>>, <<2402, 2403>>, <<2417, 2417>>, <<2433, 2433>>,
    <<2492, 2492>>, <<2497, 2500>>, <<2509, 2509>>, <<2530, 2531>>, <<2558, 2558>>,
    <<2561, 2562>>, <<2620, 2620>>, <<2625, 2626>>, <<2631, 2632>>, <<2635, 2637>>,
    <<2641, 2641>>, <<2672, 2673>>, <<2677, 2677>>, <<2689, 2690>>, <<2748, 2748>>,
    <<2753, 2757>>, <<2759, 2760>>, <<2765, 2765>>, <<2786, 2787>>, <<2810, 2815>>,
    <<2817, 2817>>, <<2876, 2876>>, <<2879, 2879>>, <<2881, 2884>>, <<2893, 2893>>,
    <<2901, 2902>>, <<2914, 2915>>, <<2946, 2946>>, <<3008, 3008>>, <<3021, 3021>>,
    <<3072, 3072>>, <<3076, 3076>>, <<3132, 3132>>, <<3134, 3136>>, <<3142, 3144>>,
    <<3146, 3149>>, <<3157, 3158>>, <<3170, 3171>>, <<3201, 3201>>, <<3260, 3260>>,
    <<3263, 3263>>, <<3270, 3270>>, <<3276, 3277>>, <<3298, 3299>>, <<3328, 3329>>,
    <<3387, 3388>>, <<3393, 3396>>, <<3405, 3405>>, <<3426, 3427>>, <<3457, 3457>>,
    <<3530, 3530>>, <<3538, 3540>>, <<3542, 3542>>, <<3633, 3633>>, <<3636, 3642>>,
    <<3654, 3662>>, <<3761, 3761>>, <<3764, 3772>>, <<3782, 3782>>, <<3784, 3790>>,
    <<3864, 3865>>, <<3893, 3893>>, <<3895, 3895>>, <<3897, 3897>>, <<3953, 3966>>,
    <<3968, 3972>>, <<3974, 3975>>, <<3981, 3991>>, <<3993, 4028>>, <<4038, 4038>>,
    <<4141, 4144>>, <<4146, 4151>>, <<4153, 4154>>, <<4157, 4158>>, <<4184, 4185>>,
    <<4190, 4192>>, <<4209, 4212>>, <<4226, 4226>>, <<4229, 4230>>, <<4237, 4237>>,
    <<4253, 4253>>, <<4348, 4348>>, <<4957, 4959>>, <<5906, 5908>>, <<5938, 5939>>,
    <<5970, 5971>>, <<6002, 6003>>, <<6068, 6069>>, <<6071, 6077>>, <<6086, 6086>>,
    <<6089, 6099>>, <<6103, 6103>>, <<6109, 6109>>, <<6155, 6159>>, <<6211, 6211>>,
    <<6277, 6278>>, <<6313, 6313>>, <<6432, 6434>>, <<6439, 6440>>, <<6450, 6450>>,
    <<6457, 6459>>, <<6679, 6680>>, <<6683, 6683>>, <<6742, 6742>>, <<6744, 6750>>,
    <<6752, 6752>>, <<6754, 6754>>, <<6757, 6764>>, <<6771, 6780>>, <<6783, 6783>>,
    <<6823, 6823>>, <<6832, 6862>>, <<6912, 6915>>, <<6964, 6964>>, <<6966, 6970>>,
    <<6972, 6972>>, <<6978, 6978>>, <<7019, 7027>>, <<7040, 7041>>, <<7074, 7077>>,
    <<7080, 7081>>, <<7083, 7085>>, <<7142, 7142>>, <<7144, 7145>>, <<7149, 7149>>,
    <<7151, 7153>>, <<7212, 7219>>, <<7222, 7223>>, <<7288, 7293>>, <<7376, 7378>>,
    <<7380, 7392>>, <<7394, 7400>>, <<7405, 7405>>, <<7412, 7412>>, <<7416, 7417>>,
    <<7468, 7530>>, <<7544, 7544>>, <<7579, 7679>>, <<8125, 8125>>, <<8127, 8129>>,
    <<8141, 8143>>, <<8157, 8159>>, <<8173, 8175>>, <<8189, 8190>>, <<8203, 8207>>,
    <<8216, 8217>>, <<8228, 8228>>, <<8231, 8231>>, <<8234, 8238>>, <<8288, 8292>>,
    <<8294, 8303>>, <<8305, 8305>>, <<8319, 8319>>, <<8336, 8348>>, <<8400, 8432>>,
    <<11388, 11389>>, <<11503, 11505>>, <<11631, 11631>>, <<11647, 11647>>, <<11744, 11775>>,
    <<11823, 11823>>, <<12293, 12293>>, <<12330, 12333>>, <<12337, 12341>>, <<12347, 12347>>,
    <<12441, 12446>>, <<12540, 12542>>, <<40981, 40981>>, <<42232, 42237>>, <<42508, 42508>>,
    <<42607, 42610>>, <<42612, 42621>>, <<42623, 42623>>, <<42652, 42655>>, <<42736, 42737>>,
    <<42752, 42785>>, <<42864, 42864>>, <<42888, 42890>>, <<42994, 42996>>, <<43000, 43001>>,
    <<43010, 43010>>, <<43014, 43014>>, <<43019, 43019>>, <<43045, 43046>>, <<43052, 43052>>,
    <<43204, 43205>>, <<43232, 43249>>, <<43263, 43263>>, <<43302, 43309>>, <<43335, 43345>>,
    <<43392, 43394>>, <<43443, 43443>>, <<43446, 43449>>, <<43452, 43453>>, <<43471, 43471>>,
    <<43493, 43494>>, <<43561, 43566>>, <<43569, 43570>>, <<43573, 43574>>, <<43587, 43587>>,
    <<43596, 43596>>, <<43632, 43632>>, <<43644, 43644>>, <<43696, 43696>>, <<43698, 43700>>,
    <<43703, 43704>>, <<43710, 43711>>, <<43713, 43713>>, <<43741, 43741>>, <<43756, 43757>>,
    <<43763, 43764>>, <<43766, 43766>>, <<43867, 43871>>, <<43881, 43883>>, <<44005, 44005>>,
    <<44008, 44008>>, <<44013, 44013>>, <<64286, 64286>>, <<64434, 64450>>, <<65024, 65039>>,
    <<65043, 65043>>, <<65056, 65071>>, <<65106, 65106>>, <<65109, 65109>>, <<65279, 65279>>,
    <<65287, 65287>>, <<65294, 65294>>, <<65306, 65306>>, <<65342, 65342>>, <<65344, 65344>>,
    <<65392, 65392>>, <<65438, 65439>>, <<65507, 65507>>, <<65529, 65531>>, <<66045, 66045>>,
    <<66272, 66272>>, <<66422, 66426>>, <<67456, 67461>>, <<67463, 67504>>, <<67506, 67514>>,
    <<68097, 68099>>, <<68101, 68102>>, <<68108, 68111>>, <<68152, 68154>>, <<68159, 68159>>,
    <<68325, 68326>>, <<68900, 68903>>, <<69291, 69292>>, <<69373, 69375>>, <<69446, 69456>>,
    <<69506, 69509>>, <<69633, 69633>>, <<69688, 69702>>, <<69744, 69744>>, <<69747, 69748>>,
    <<69759, 69761>>, <<69811, 69814>>, <<69817, 69818>>, <<69821, 69821>>, <<69826, 69826>>,
    <<69837, 69837>>, <<69888, 69890>>, <<69927, 69931>>, <<69933, 69940>>, <<70003, 70003>>,
    <<70016, 70017>>, <<70070, 70078>>, <<70089, 70092>>, <<70095, 70095>>, <<70191, 70193>>,
    <<70196, 70196>>, <<70198, 70199>>, <<70206, 70206>>, <<70209, 70209>>, <<70367, 70367>>,
    <<70371, 70378>>, <<70400, 70401>>, <<70459, 70460>>, <<70464, 70464>>, <<70502, 70508>>,
    <<70512, 70516>>, <<70712, 70719>>, <<70722, 70724>>, <<70726, 70726>>, <<70750, 70750>>,
    <<70835, 70840>>, <<70842, 70842>>, <<70847, 70848>>, <<70850, 70851>>, <<71090, 71093>>,
    <<71100, 71101>>, <<71103, 71104>>, <<71132, 71133>>, <<71219, 71226>>, <<71229, 71229>>,
    <<71231, 71232>>, <<71339, 71339>>, <<71341, 71341>>, <<71344, 71349>>, <<71351, 71351>>,
    <<71453, 71455>>, <<71458, 71461>>, <<71463, 71467>>, <<71727, 71735>>, <<71737, 71738>>,
    <<71995, 71996>>, <<71998, 71998>>, <<72003, 72003>>, <<72148, 72151>>, <<72154, 72155>>,
    <<72160, 72160>>, <<72193, 72202>>, <<72243, 72248>>, <<72251, 72254>>, <<72263, 72263>>,
    <<72273, 72278>>, <<72281, 72283>>, <<72330, 72342>>, <<72344, 72345>>, <<72752, 72758>>,
    <<72760, 72765>>, <<72767, 72767>>, <<72850, 72871>>, <<72874, 72880>>, <<72882, 72883>>,
    <<72885, 72886>>, <<73009, 73014>>, <<73018, 73018>>, <<73020, 73021>>, <<73023, 73029>>,
    <<73031, 73031>>, <<73104, 73105>>, <<73109, 73109>>, <<73111, 73111>>, <<73459, 73460>>,
    <<73472, 73473>>, <<73526, 73530>>, <<73536, 73536>>, <<73538, 73538>>, <<78896, 78912>>,
    <<78919, 78933>>, <<92912, 92916>>, <<92976, 92982>>, <<92992, 92995>>, <<94031, 94031>>,
    <<94095, 94111>>, <<94176, 94177>>, <<94179, 94180>>, <<110576, 110579>>,
    <<110581, 110587>>, <<110589, 110590>>, <<113821, 113822>>, <<113824, 113827>>,
    <<118528, 118573>>, <<118576, 118598>>, <<119143, 119145>>, <<119155, 119170>>,
    <<119173, 119179>>, <<119210, 119213>>, <<119362, 119364>>, <<121344, 121398>>,
    <<121403, 121452>>, <<121461, 121461>>, <<121476, 121476>>, <<121499, 121503>>,
    <<121505, 121519>>, <<122880, 122886>>, <<122888, 122904>>, <<122907, 122913>>,
    <<122915, 122916>>, <<122918, 122922>>, <<122928, 122989>>, <<123023, 123023>>,
    <<123184, 123197>>, <<123566, 123566>>, <<123628, 123631>>, <<124139, 124143>>,
    <<125136, 125142>>, <<125252, 125259>>, <<127995, 127999>>, <<917505, 917505>>,
    <<917536, 917631>>, <<917760, 917999>> }

\* the lower case of one code point: <<first, last, step, delta>> gives
\* cp + delta for the code points first, first + step, .., last
LowerRuns ==
  { <<65, 90, 1, 32>>, <<192, 214, 1, 32>>, <<216, 222, 1, 32>>, <<256, 302, 2, 1>>,
    <<304, 304, 1, -199>>, <<306, 310, 2, 1>>, <<313, 327, 2, 1>>, <<330, 374, 2, 1>>,
    <<376, 376, 1, -121>>, <<377, 381, 2, 1>>, <<385, 385, 1, 210>>, <<386, 388, 2, 1>>,
    <<390, 390, 1, 206>>, <<391, 391, 1, 1>>, <<393, 394, 1, 205>>, <<395, 395, 1, 1>>,
    <<398, 398, 1, 79>>, <<399, 399, 1, 202>>, <<400, 400, 1, 203>>, <<401, 401, 1, 1>>,
    <<403, 403, 1, 205>>, <<404, 404, 1, 207>>, <<406, 406, 1, 211>>, <<407, 407, 1, 209>>,
    <<408, 408, 1, 1>>, <<412, 412, 1, 211>>, <<413, 413, 1, 213>>, <<415, 415, 1, 214>>,
    <<416, 420, 2, 1>>, <<422, 422, 1, 218>>, <<423, 423, 1, 1>>, <<425, 425, 1, 218>>,
    <<428, 428, 1, 1>>, <<430, 430, 1, 218>>, <<431, 431, 1, 1>>, <<433, 434, 1, 217>>,
    <<435, 437, 2, 1>>, <<439, 439, 1, 219>>, <<440, 440, 1, 1>>, <<444, 444, 1, 1>>,
    <<452, 452, 1, 2>>, <<453, 453, 1, 1>>, <<455, 455, 1, 2>>, <<456, 456, 1, 1>>,
    <<458, 458, 1, 2>>, <<459, 475, 2, 1>>, <<478, 494, 2, 1>>, <<497, 497, 1, 2>>,
    <<498, 500, 2, 1>>, <<502, 502, 1, -97>>, <<503, 503, 1, -56>>, <<504, 542, 2, 1>>,
    <<544, 544, 1, -130>>, <<546, 562, 2, 1>>, <<570, 570, 1, 10795>>, <<571, 571, 1, 1>>,
    <<573, 573, 1, -163>>, <<574, 574, 1, 10792>>, <<577, 577, 1, 1>>, <<579, 579, 1, -195>>,
    <<580, 580, 1, 69>>, <<581, 581, 1, 71>>, <<582, 590, 2, 1>>, <<880, 882, 2, 1>>,
    <<886, 886, 1, 1>>, <<895, 895, 1, 116>>, <<902, 902, 1, 38>>, <<904, 906, 1, 37>>,
    <<908, 908, 1, 64>>, <<910, 911, 1, 63>>, <<913, 929, 1, 32>>, <<931, 939, 1, 32>>,
    <<975, 975, 1, 8>>, <<984, 1006, 2, 1>>, <<1012, 1012, 1, -60>>, <<1015, 1015, 1, 1>>,
    <<1017, 1017, 1, -7>>, <<1018, 1018, 1, 1>>, <<1021, 1023, 1, -130>>,
    <<1024, 1039, 1, 80>>, <<1040, 1071, 1, 32>>, <<1120, 1152, 2, 1>>, <<1162, 1214, 2, 1>>,
    <<1216, 1216, 1, 15>>, <<1217, 1229, 2, 1>>, <<1232, 1326, 2, 1>>, <<1329, 1366, 1, 48>>,
    <<4256, 4293, 1, 7264>>, <<4295, 4295, 1, 7264>>, <<4301, 4301, 1, 7264>>,
    <<5024, 5103, 1, 38864>>, <<5104, 5109, 1, 8>>, <<7312, 7354, 1, -3008>>,
    <<7357, 7359, 1, -3008>>, <<7680, 7828, 2, 1>>, <<7838, 7838, 1, -7615>>,
    <<7840, 7934, 2, 1>>, <<7944, 7951, 1, -8>>, <<7960, 7965, 1, -8>>, <<7976, 7983, 1, -8>>,
    <<7992, 7999, 1, -8>>, <<8008, 8013, 1, -8>>, <<8025, 8031, 2, -8>>, <<8040, 8047, 1, -8>>,
    <<8072, 8079, 1, -8>>, <<8088, 8095, 1, -8>>, <<8104, 8111, 1, -8>>, <<8120, 8121, 1, -8>>,
    <<8122, 8123, 1, -74>>, <<8124, 8124, 1, -9>>, <<8136, 8139, 1, -86>>,
    <<8140, 8140, 1, -9>>, <<8152, 8153, 1, -8>>, <<8154, 8155, 1, -100>>,
    <<8168, 8169, 1, -8>>, <<8170, 8171, 1, -112>>, <<8172, 8172, 1, -7>>,
    <<8184, 8185, 1, -128>>, <<8186, 8187, 1, -126>>, <<8188, 8188, 1, -9>>,
    <<8486, 8486, 1, -7517>>, <<8490, 8490, 1, -8383>>, <<8491, 8491, 1, -8262>>,
    <<8498, 8498, 1, 28>>, <<8544, 8559, 1, 16>>, <<8579, 8579, 1, 1>>, <<9398, 9423, 1, 26>>,
    <<11264, 11311, 1, 48>>, <<11360, 11360, 1, 1>>, <<11362, 11362, 1, -10743>>,
    <<11363, 11363, 1, -3814>>, <<11364, 11364, 1, -10727>>, <<11367, 11371, 2, 1>>,
    <<11373, 11373, 1, -10780>>, <<11374, 11374, 1, -10749>>, <<11375, 11375, 1, -10783>>,
    <<11376, 11376, 1, -10782>>, <<11378, 11378, 1, 1>>, <<11381, 11381, 1, 1>>,
    <<11390, 11391, 1, -10815>>, <<11392, 11490, 2, 1>>, <<11499, 11501, 2, 1>>,
    <<11506, 11506, 1, 1>>, <<42560, 42604, 2, 1>>, <<42624, 42650, 2, 1>>,
    <<42786, 42798, 2, 1>>, <<42802, 42862, 2, 1>>, <<42873, 42875, 2, 1>>,
    <<42877, 42877, 1, -35332>>, <<42878, 42886, 2, 1>>, <<42891, 42891, 1, 1>>,
    <<42893, 42893, 1, -42280>>, <<42896, 42898, 2, 1>>, <<42902, 42920, 2, 1>>,
    <<42922, 42922, 1, -42308>>, <<42923, 42923, 1, -42319>>, <<42924, 42924, 1, -42315>>,
    <<42925, 42925, 1, -42305>>, <<42926, 42926, 1, -42308>>, <<42928, 42928, 1, -42258>>,
    <<42929, 42929, 1, -42282>>, <<42930, 42930, 1, -42261>>, <<42931, 42931, 1, 928>>,
    <<42932, 42946, 2, 1>>, <<42948, 42948, 1, -48>>, <<42949, 42949, 1, -42307>>,
    <<42950, 42950, 1, -35384>>, <<42951, 42953, 2, 1>>, <<42960, 42960, 1, 1>>,
    <<42966, 42968, 2, 1>>, <<42997, 42997, 1, 1>>, <<65313, 65338, 1, 32>>,
    <<66560, 66599, 1, 40>>, <<66736, 66771, 1, 40>>, <<66928, 66938, 1, 39>>,
    <<66940, 66954, 1, 39>>, <<66956, 66962, 1, 39>>, <<66964, 66965, 1, 39>>,
    <<68736, 68786, 1, 64>>, <<71840, 71871, 1, 32>>, <<93760, 93791, 1, 32>>,
    <<125184, 125217, 1, 34>> }

\* a build with the tables of Unicode 15.0
Unicode15 ==
  [alphabetic |-> {}, cased |-> {}, ignorable |-> {}, uncased |-> {}, unignorable |-> {},
   lower |-> <<>>]

\* the code points assigned in Unicode 15.0 that the later versions hold
\* Alphabetic: U+0363..036F and U+1DD3..1DE6, combining Latin small letters
AlphabeticLater == { <<867, 879>>, <<7635, 7654>> }

\* the code point that Unicode 15.0 holds Cased and the later versions do
\* not: U+0295
CasedEarlier == { <<661, 661>> }

\* the code point that Unicode 15.0 holds Case_Ignorable and the later
\* versions do not: U+1171E
CaseIgnorableEarlier == { <<71454, 71454>> }

\* the distances from a letter to its lower case in the scripts with two
\* cases: none, the next code point, the code point 32 further
LaterLowerOffsets == {0, 1, 32}

\* the lower case that Unicode 16.0 and 17.0 give at other distances, as
\* LowerRuns: U+A7CB becomes U+0264, U+A7DC becomes U+019B, and
\* U+16EA0..16EB8 the code point 27 further
LaterLowerRuns ==
  { <<42955, 42955, 1, -42343>>, <<42972, 42972, 1, -42561>>, <<93856, 93880, 1, 27>> }

\* the distances a build can have from the code point cp to its lower case
LaterLowerDistances(cp) ==
  LaterLowerOffsets \cup {r[4] : r \in {q \in LaterLowerRuns : q[1] <= cp /\ cp <= q[2]}}

\* the code points of the characters of bs from the byte i on
RECURSIVE CodePointsFrom(_, _)
CodePointsFrom(bs, i) ==
  IF i >= Len(bs)
    THEN {}
    ELSE LET k == Utf8CharLen(SliceFrom(bs, i))
         IN  {Utf8Decode(Slice(bs, i, i + k))} \cup CodePointsFrom(bs, i + k)

\* the builds that differ on the input bs: what they make of its code points
\* that Unicode 15.0 leaves unassigned, and of those the later versions change
LaterBuilds(bs) ==
  LET P == {cp \in CodePointsFrom(bs, 0) : cp >= 128}
      U == {cp \in P : InRanges(cp, Unassigned)}
      A == {cp \in P : InRanges(cp, AlphabeticLater)}
      C == {cp \in P : InRanges(cp, CasedEarlier)}
      G == {cp \in P : InRanges(cp, CaseIgnorableEarlier)}
      D == UNION {LaterLowerDistances(cp) : cp \in U}
  IN  UNION { { [alphabetic |-> a, cased |-> c, ignorable |-> g, uncased |-> uc,
                 unignorable |-> ug, lower |-> l] :
                  a \in SUBSET (U \cup A), g \in SUBSET U, uc \in SUBSET C,
                  ug \in SUBSET G,
                  l \in {f \in [c -> D] : \A cp \in c : f[cp] \in LaterLowerDistances(cp)} } :
              c \in SUBSET U }

\* c.is_alphabetic() of the character ch
is_alphabetic(ch, later) ==
  LET cp == Utf8Decode(ch)
  IN  IF cp < 128
        THEN (65 <= cp /\ cp <= 90) \/ (97 <= cp /\ cp <= 122)
        ELSE InRanges(cp, Alphabetic) \/ cp \in later.alphabetic

\* c.is_whitespace() of the character ch
is_whitespace(ch) == ch \in WhiteSpace

\* input.chars().position(|c| c.is_alphabetic() || c.is_whitespace()) from the
\* byte i on, n characters passed: the index counted in characters, -1 for None
RECURSIVE CharsPosition(_, _, _, _)
CharsPosition(bs, i, n, later) ==
  IF i >= Len(bs)
    THEN -1
    ELSE LET k == Utf8CharLen(SliceFrom(bs, i))
             ch == Slice(bs, i, i + k)
         IN  IF is_alphabetic(ch, later) \/ is_whitespace(ch)
               THEN n
               ELSE CharsPosition(bs, i + k, n + 1, later)

\* str::is_char_boundary(index)
is_char_boundary(bs, index) ==
  \/ index = 0
  \/ index = Len(bs)
  \/ index < Len(bs) /\ ~Cont(At(bs, index))

\* the lower case of the code point cp, one or two code points: U+0130 becomes
\* "i" and U+0307, the others what LowerRuns or the build gives, or stay
to_lower(cp, later) ==
  IF cp = 304
    THEN <<105, 775>>
    ELSE IF \E r \in LowerRuns : r[1] <= cp /\ cp <= r[2] /\ (cp - r[1]) % r[3] = 0
      THEN LET r == CHOOSE r \in LowerRuns :
                      r[1] <= cp /\ cp <= r[2] /\ (cp - r[1]) % r[3] = 0
           IN  <<cp + r[4]>>
      ELSE IF cp \in DOMAIN later.lower
        THEN <<cp + later.lower[cp]>>
        ELSE <<cp>>

\* the code point cp is Cased, Case_Ignorable
is_cased(cp, later) ==
  (InRanges(cp, Cased) /\ cp \notin later.uncased) \/ cp \in later.cased
is_case_ignorable(cp, later) ==
  (InRanges(cp, CaseIgnorable) /\ cp \notin later.unignorable) \/ cp \in later.ignorable

\* the byte at which the character before the byte i starts
RECURSIVE CharStartBefore(_, _)
CharStartBefore(bs, i) ==
  IF Cont(At(bs, i - 1)) THEN CharStartBefore(bs, i - 1) ELSE i - 1

\* case_ignorable_then_cased(from[i..].chars()): the first character from the
\* byte i on that is not Case_Ignorable is Cased
RECURSIVE CasedAfter(_, _, _)
CasedAfter(bs, i, later) ==
  IF i >= Len(bs)
    THEN FALSE
    ELSE LET k == Utf8CharLen(SliceFrom(bs, i))
             cp == Utf8Decode(Slice(bs, i, i + k))
         IN  IF is_case_ignorable(cp, later)
               THEN CasedAfter(bs, i + k, later)
               ELSE is_cased(cp, later)

\* case_ignorable_then_cased(from[..i].chars().rev())
RECURSIVE CasedBefore(_, _, _)
CasedBefore(bs, i, later) ==
  IF i = 0
    THEN FALSE
    ELSE LET j == CharStartBefore(bs, i)
             cp == Utf8Decode(Slice(bs, j, i))
         IN  IF is_case_ignorable(cp, later)
               THEN CasedBefore(bs, j, later)
               ELSE is_cased(cp, later)

\* the UTF-8 of a sequence of code points
RECURSIVE Utf8EncodeAll(_)
Utf8EncodeAll(cps) ==
  IF Len(cps) = 0 THEN <<>> ELSE Utf8Encode(Head(cps)) \o Utf8EncodeAll(Tail(cps))

\* str::to_lowercase from the byte i on: U+03A3 becomes U+03C2 at the end of
\* a word (after a cased letter and not before one) and U+03C3 elsewhere, the
\* other characters their lower case
RECURSIVE ToLowercaseFrom(_, _, _)
ToLowercaseFrom(bs, i, later) ==
  IF i >= Len(bs)
    THEN <<>>
    ELSE LET k == Utf8CharLen(SliceFrom(bs, i))
             cp == Utf8Decode(Slice(bs, i, i + k))
             lower == IF cp = 931
                        THEN IF CasedBefore(bs, i, later) /\ ~CasedAfter(bs, i + 2, later)
                               THEN <<962>> ELSE <<963>>
                        ELSE to_lower(cp, later)
         IN  Utf8EncodeAll(lower) \o ToLowercaseFrom(bs, i + k, later)

\* str::to_lowercase
to_lowercase(bs, later) == ToLowercaseFrom(bs, 0, later)

\* what from_str does from the split on, lines 194-198
FromStrSplit(T, input, unit_index, later) ==
  IF ~is_char_boundary(input, unit_index)
    THEN Panic
    ELSE
      LET vstr == Slice(input, 0, unit_index)
          ustr == SliceFrom(input, unit_index)
          unit == Unit_from_str(to_lowercase(Trim(ustr), later))
          value == int_from_str(T, vstr)
      IN  IF unit = ""
            THEN Err("InvalidUnit")
            ELSE IF value.err
              THEN Err("InvalidValue")
              ELSE Bytes_new(T, value.v, unit)

\* <Bytes<T> as FromStr>::from_str(s); split_at panics when the index, counted
\* in characters, is no character boundary counted in bytes
Bytes_from_str(T, s, later) ==
  LET input == Trim(s)
      position == CharsPosition(input, 0, 0, later)
      unit_index == IF position = -1 THEN Len(input) ELSE position
  IN  IF Len(input) = 0
        THEN Err("EmptyInput")
        ELSE IF unit_index = 0
          THEN Err("MissingValue")
          ELSE FromStrSplit(T, input, unit_index, later)

(***************************************************************************)
(* The inputs of the calls                                                  *)
(***************************************************************************)

\* the longest input of the length sweep
MaxLen == 37
\* the most fraction digits an input carries
MaxFrac == 10
\* the years 0..MaxYear are all tried, besides the chosen later ones
MaxYear == 8
\* TimeZone::new is tried on -MaxHour..MaxHour
MaxHour == 14

\* n copies of the byte c
Rep(c, n) == [i \in 1..n |-> c]

\* the two decimal digits of n
Dec2(n) == <<Chr["0"] + (n \div 10), Chr["0"] + (n % 10)>>

\* "2006-01-02T15:04:05.123456789+08:00"
LongStamp ==
  Str(<<"2","0","0","6","-","0","1","-","0","2","T","1","5",":","0","4",":","0","5",
        ".","1","2","3","4","5","6","7","8","9","+","0","8",":","0","0">>)

\* white space put around an input: none, " ", "\t\n", U+00A0, U+3000
WsSamples == { <<>>, <<32>>, <<9, 10>>, <<194, 160>>, <<227, 128, 128>> }

\* the bodies of the length sweep: a valid timestamp continued with digits,
\* and letters only
SweepTexts == { LongStamp \o Rep(Chr["0"], MaxLen), Rep(Chr["x"], MaxLen) }

YearTexts ==
  { Str(<<"0","0","0","0">>), Str(<<"2","0","0","6">>), Str(<<"9","9","9","9">>),
    Str(<<"2","0","0","A">>) }
MonthTexts == { Str(<<"0","2">>), Str(<<"1","3">>), Str(<<"A","1">>) }
DayTexts == { Str(<<"0","2">>), Str(<<"2","9">>), Str(<<"0","A">>) }
DateSeps == { Str(<<"-">>), Str(<<"/">>) }
TimeSeps == { Str(<<"T">>), Str(<<" ">>), Str(<<"F">>) }
HourTexts == { Str(<<"1","5">>), Str(<<"1","A">>) }
MinuteTexts == { Str(<<"0","4">>), Str(<<"0","A">>) }
SecondTexts == { Str(<<"0","5">>), Str(<<"6","0">>), Str(<<"A","5">>) }
ColonSeps == { Str(<<":">>), Str(<<"+">>) }

\* what follows the seconds in the field product
TailTexts ==
  { <<>>, Str(<<"Z">>), Str(<<"?">>), Str(<<".","Z">>), Str(<<".","5">>),
    Str(<<"+","0","8",":","0","0">>), Str(<<".","1","2","3","5","Z","0","8">>) }

DateTexts ==
  { y \o s1 \o m \o s2 \o d :
      y \in YearTexts, s1 \in DateSeps, m \in MonthTexts, s2 \in DateSeps,
      d \in DayTexts }

ClockTexts ==
  { st \o h \o c1 \o m \o c2 \o s :
      st \in TimeSeps, h \in HourTexts, c1 \in ColonSeps, m \in MinuteTexts,
      c2 \in ColonSeps, s \in SecondTexts }

\* fraction digits: k digits of one of five patterns
FracDigits(k, pat) ==
  [i \in 1..k |->
     Chr["0"] + (CASE pat = 1 -> i % 10
                   [] pat = 2 -> 9
                   [] pat = 3 -> IF i = k THEN 1 ELSE 0
                   [] pat = 4 -> IF i = 1 THEN 5 ELSE 0
                   [] pat = 5 -> <<4, 2, 9, 4, 9, 6, 7, 2, 9, 6, 0>>[((i - 1) % 11) + 1])]

\* zone suffixes, accepted and not: every "+HH:00" and "-HH:00" up to 13,
\* and "", "Z", "z", "Z08", "08", "+8:00", "+05:30", ".", U+4E2D, "Z" U+4E2D
ZoneTexts ==
  { <<sg>> \o Dec2(hh) \o Str(<<":","0","0">>) : sg \in {Chr["+"], Chr["-"]}, hh \in 0..13 }
  \cup { <<>>, Str(<<"Z">>), Str(<<"z">>), Str(<<"Z","0","8">>), Str(<<"0","8">>),
         Str(<<"+","8",":","0","0">>), Str(<<"+","0","5",":","3","0">>), Str(<<".">>),
         <<228, 184, 173>>, <<90, 228, 184, 173>> }

StampTexts ==
  { Str(<<"2","0","0","6","-","0","1","-","0","2","T","1","5",":","0","4",":","0","5">>),
    Str(<<"2","0","1","8","-","0","2","-","2","9"," ","1","5",":","0","4",":","0","5">>),
    Str(<<"0","0","0","0","-","0","1","-","0","1","T","0","0",":","0","0",":","0","0">>) }

(***************************************************************************)
(* The caller                                                               *)
(***************************************************************************)

Init ==
  /\ op = "idle"
  /\ arg = <<>>
  /\ ret = None

\* s.parse::<Time>() / parse_rfc3339(s), in either build
CallParse(s) ==
  \E overflow_checks \in BOOLEAN :
    /\ op' = "parse_rfc3339"
    /\ arg' = s
    /\ ret' = parse_rfc3339(s, overflow_checks)

\* parse_rfc3339 on inputs of every length 0..MaxLen, inside white space
ParseLengths ==
  /\ op = "idle"
  /\ \E lead \in WsSamples, trail \in WsSamples, n \in 0..MaxLen, body \in SweepTexts :
       CallParse(lead \o SubSeq(body, 1, n) \o trail)

\* parse_rfc3339 on a date alone, every combination of right and wrong fields
ParseDates ==
  /\ op = "idle"
  /\ \E d \in DateTexts : CallParse(d)

\* parse_rfc3339 on date, time and tail, every combination of right and wrong
\* fields and separators
ParseFields ==
  /\ op = "idle"
  /\ \E d \in DateTexts, c \in ClockTexts, tl \in TailTexts : CallParse(d \o c \o tl)

\* parse_rfc3339 on a valid date and time with every fraction and every zone
ParseSuffixes ==
  /\ op = "idle"
  /\ \E st \in StampTexts, k \in 0..MaxFrac, pat \in 0..5, z \in ZoneTexts :
       CallParse(st \o (IF pat = 0 THEN <<>> ELSE Str(<<".">>) \o FracDigits(k, pat)) \o z)

\* s.parse::<TimeZone>()
CallTimeZoneFromStr ==
  /\ op = "idle"
  /\ \E z \in ZoneTexts, n \in 0..6 :
       /\ n <= Len(z)
       /\ op' = "TimeZone::from_str"
       /\ arg' = SubSeq(z, 1, n)
       /\ ret' = TimeZoneFromStr(SubSeq(z, 1, n))

\* TimeZone::new(hoffset)
CallTimeZoneNew ==
  /\ op = "idle"
  /\ \E h \in (-MaxHour)..MaxHour :
       /\ op' = "TimeZone::new"
       /\ arg' = h
       /\ ret' = TimeZoneNew(h)

\* the inputs of the repository's tests (tests.rs, test_parse_rfc3339 and
\* test_parse_rfc3339_errors) and the examples of the specification
TestTexts ==
  { <<>>,
    Str(<<"2","0","0","6","-","0","1","-","0","2">>),
    Str(<<"2","0","0","6","-","0","1","-","0","2","T","1","5",":","0","4",":","0","5">>),
    Str(<<"2","0","0","6","-","0","1","-","0","2"," ","1","5",":","0","4",":","0","5">>),
    Str(<<"2","0","0","6","-","0","1","-","0","2"," ","1","5",":","0","4",":","0","5","Z">>),
    Str(<<"2","0","0","6","-","0","1","-","0","2"," ","1","5",":","0","4",":","0","5","+","0","0",":","0","0">>),
    Str(<<"2","0","0","6","-","0","1","-","0","2"," ","1","5",":","0","4",":","0","5","-","0","0",":","0","0">>),
    Str(<<"2","0","0","6","-","0","1","-","0","2","T","1","5",":","0","4",":","0","5",".","9","9","9","9","9","9","9","9","9","Z">>),
    Str(<<"2","0","0","6","-","0","1","-","0","2","T","1","5",":","0","4",":","0","5",".","1","2","3","Z">>),
    Str(<<"2","0","1","8","-","0","9","-","2","1","T","1","6",":","5","6",":","4","4",".","2","3","4","8","6","7","2","3","2","+","0","8",":","0","0">>),
    Str(<<"2","0","0","6","-","0","1","-","0">>),
    Str(<<"2","0","0","6","-","0","1","-","0","2"," ","1","5",":","0","4",":","5">>),
    Str(<<"2","0","0","6","-","0","1","-","0","2","T","1","5",":","0","4",":","0","5",".","1","2","3","4","5","6","7","8","9","0","+","0","8",":","0","0">>),
    Str(<<"2","0","0","6","-","0","1","/","0","2","T","1","5",":","0","4",":","0","5">>),
    Str(<<"2","0","0","6","-","0","1","-","0","2","F","1","5",":","0","4",":","0","5">>),
    Str(<<"2","0","0","6","-","0","1","-","0","2"," ","1","5","+","0","4",":","0","5">>),
    Str(<<"2","0","0","6","-","0","1","-","0","2"," ","1","5",":","0","4",":","0","5","?">>),
    Str(<<"2","0","0","A","-","0","1","-","0","2"," ","1","5",":","0","4",":","0","5">>),
    Str(<<"2","0","0","6","-","A","1","-","0","2"," ","1","5",":","0","4",":","0","5">>),
    Str(<<"2","0","0","6","-","0","1","-","0","A"," ","1","5",":","0","4",":","0","5">>),
    Str(<<"2","0","0","6","-","0","1","-","0","2"," ","1","A",":","0","4",":","0","5">>),
    Str(<<"2","0","0","6","-","0","1","-","0","2"," ","1","5",":","0","A",":","0","5">>),
    Str(<<"2","0","0","6","-","0","1","-","0","2"," ","1","5",":","0","4",":","A","5">>),
    Str(<<"2","0","0","6","-","0","1","-","0","2"," ","1","5",":","0","4",":","0","5",".","Z">>),
    Str(<<"2","0","0","6","-","0","1","-","0","2","T","1","5",":","0","4",":","0","5",".","1","2","3","5","Z","0","8">>),
    Str(<<"2","0","1","8","-","0","2","-","2","9","T","1","5",":","0","4",":","0","5",".","1","2","3","5">>),
    Str(<<"1","9","7","0","-","0","1","-","0","1","T","0","0",":","0","0",":","0","0","Z">>),
    Str(<<"2","0","0","6","-","0","1","-","0","2","T","1","5",":","0","4",":","0","5","+","0","8",":","0","0">>),
    Str(<<"2","0","0","6","-","0","1","-","0","2","T","0","7",":","0","4",":","0","5","Z">>),
    Str(<<"2","0","1","8","-","0","2","-","2","9","T","1","5",":","0","4",":","0","5","Z">>),
    Str(<<"2","0","0","A","-","0","1","-","0","2","T","1","5",":","0","4",":","0","5","Z">>),
    Str(<<"2","0","0","6","-","0","1","-","0","2","T","1","5",":","0","4",":","0","5",".","Z">>),
    Str(<<"2","0","0","6","-","0","1","-","0","2","T","1","5",":","0","4",":","0","5",".","5">>) }

\* parse_rfc3339 on the inputs of the tests
ParseTests ==
  /\ op = "idle"
  /\ \E s \in TestTexts : CallParse(s)

\* the years tried: 0..MaxYear and years around the 4-, 100- and 400-year
\* boundaries, the tests' years and the ends of the range
Years ==
  (0..MaxYear) \cup { 99, 100, 101, 399, 400, 401, 1900, 1970, 1987, 1988, 2000,
                     2018, 9999, 10000, 10001 }

Days == { 0, 1, 2, 28, 29, 30, 31, 32 }

\* hour, minute, second, nano
Clocks ==
  { <<0, 0, 0, 0>>, <<23, 59, 59, 999999999>>, <<24, 0, 0, 0>>, <<0, 60, 0, 0>>,
    <<0, 0, 60, 0>>, <<0, 0, 0, 1000000000>>, <<15, 4, 5, 123000000>>,
    <<23, 0, 0, 0>> }

\* the hour offsets of the zones tried
ZoneHours == { -12, -1, 0, 1, 8, 12 }

\* Time::from_timetuple(year, month, day, hour, minute, second, nano, zone)
CallFromTimetuple ==
  /\ op = "idle"
  /\ \E year \in Years, month \in 0..13, day \in Days, c \in Clocks, h \in ZoneHours :
       LET zone == TimeZoneNew(h).offset
       IN  /\ op' = "from_timetuple"
           /\ arg' = [year |-> year, month |-> month, day |-> day, hour |-> c[1],
                      minute |-> c[2], second |-> c[3], nano |-> c[4], zone |-> zone]
           /\ ret' = FromTimetuple(year, month, day, c[1], c[2], c[3], c[4], zone)

\* Time::from_timetuple(tuple).unwrap().to_system_time(), in either build
CallToSystemTime(year, month, day, c, zone) ==
  LET t == FromTimetuple(year, month, day, c[1], c[2], c[3], c[4], zone)
  IN  /\ t.tag = "Some"
      /\ \E overflow_checks \in BOOLEAN :
           /\ op' = "to_system_time"
           /\ arg' = [year |-> year, month |-> month, day |-> day, hour |-> c[1],
                      minute |-> c[2], second |-> c[3], nano |-> c[4], zone |-> zone,
                      self |-> TimeOf(t)]
           /\ ret' = to_system_time(TimeOf(t), overflow_checks)

\* to_system_time on the first of January, February and March of every year
\* from 1970 to 9999 at UTC (tests.rs, test_1970_to_9999)
SystemTimeYears ==
  /\ op = "idle"
  /\ \E year \in 1970..9999, month \in 1..3 :
       CallToSystemTime(year, month, 1, <<0, 0, 0, 0>>, TimeZoneNew(0).offset)

\* to_system_time on tuples of every year tried, before and after the epoch,
\* at every zone tried
SystemTimeTuples ==
  /\ op = "idle"
  /\ \E year \in Years, month \in {1, 2, 3, 12}, day \in {1, 28, 29, 31},
        c \in Clocks, h \in ZoneHours :
       CallToSystemTime(year, month, day, c, TimeZoneNew(h).offset)

\* s.parse::<Time>().unwrap().to_system_time() on the inputs of the tests,
\* in either build
CallParseToSystemTime ==
  /\ op = "idle"
  /\ \E s \in TestTexts, overflow_checks \in BOOLEAN :
       LET r == parse_rfc3339(s, overflow_checks)
       IN  /\ r.tag = "Ok"
           /\ op' = "parse_to_system_time"
           /\ arg' = [text |-> s, self |-> TimeOf(r)]
           /\ ret' = to_system_time(TimeOf(r), overflow_checks)

\* the Times two of which are compared and subtracted: UNIX_EPOCH and the
\* Times of tuples at UTC that differ in their days, seconds and nanoseconds
SinceTimes ==
  { UNIX_EPOCH }
    \cup { TimeOf(FromTimetuple(year, month, day, c[1], c[2], c[3], c[4], 0)) :
             year \in {0, 1969, 1970, 9999}, month \in {1, 12}, day \in {1, 31},
             c \in { <<0, 0, 0, 0>>, <<0, 0, 0, 1>>, <<0, 0, 0, 999999999>>,
                     <<0, 0, 1, 0>>, <<12, 0, 0, 500000000>>,
                     <<23, 59, 59, 999999999>> } }

\* self.since(earlier), in either build
CallSince ==
  /\ op = "idle"
  /\ \E self \in SinceTimes, earlier \in SinceTimes, overflow_checks \in BOOLEAN :
       /\ op' = "since"
       /\ arg' = [self |-> self, earlier |-> earlier]
       /\ ret' = since(self, earlier, overflow_checks)

\* self.cmp(other)
CallCmp ==
  /\ op = "idle"
  /\ \E self \in SinceTimes, other \in SinceTimes :
       /\ op' = "cmp"
       /\ arg' = [self |-> self, other |-> other]
       /\ ret' = cmp(self, other)

\* year and month of the timestamps compared: "0000-02", "2006-01",
\* "2016-02", "9999-12"
MonthPrefixes ==
  { Str(<<"0","0","0","0","-","0","2","-">>), Str(<<"2","0","0","6","-","0","1","-">>),
    Str(<<"2","0","1","6","-","0","2","-">>), Str(<<"9","9","9","9","-","1","2","-">>) }

\* what follows the day of the timestamps compared: "", "T15:04:05",
\* "T15:04:05.5Z", "T00:00:00+12:00", "T23:59:59-12:00"
DaySuffixes ==
  { <<>>,
    Str(<<"T","1","5",":","0","4",":","0","5">>),
    Str(<<"T","1","5",":","0","4",":","0","5",".","5","Z">>),
    Str(<<"T","0","0",":","0","0",":","0","0","+","1","2",":","0","0">>),
    Str(<<"T","2","3",":","5","9",":","5","9","-","1","2",":","0","0">>) }

\* a.parse::<Time>() and b.parse::<Time>() of two timestamps that differ in
\* the day only, and a.cmp(b) when both are Ok
CallParseCmp ==
  /\ op = "idle"
  /\ \E p \in MonthPrefixes, da \in 1..31, db \in 1..31, sf \in DaySuffixes,
        overflow_checks \in BOOLEAN :
       LET a == p \o Dec2(da) \o sf
           b == p \o Dec2(db) \o sf
           ra == parse_rfc3339(a, overflow_checks)
           rb == parse_rfc3339(b, overflow_checks)
       IN  /\ op' = "parse_cmp"
           /\ arg' = [a |-> a, b |-> b]
           /\ ret' = [a |-> ra, b |-> rb,
                      ord |-> IF ra.tag = "Ok" /\ rb.tag = "Ok"
                                THEN cmp(TimeOf(ra), TimeOf(rb))
                                ELSE "None"]

\* the most digits of an integer of the digit sweep
MaxDigits == 21

\* the digit strings the sweep takes its prefixes of: u64::MAX continued,
\* u64::MAX + 1 continued, nines, a one and zeros, zeros
DigitSources ==
  { <<49, 56, 52, 52, 54, 55, 52, 52, 48, 55, 51, 55, 48, 57, 53, 53, 49, 54, 49, 53, 57, 57, 57, 57>>,
    <<49, 56, 52, 52, 54, 55, 52, 52, 48, 55, 51, 55, 48, 57, 53, 53, 49, 54, 49, 54, 48, 48, 48, 48>>,
    <<57, 57, 57, 57, 57, 57, 57, 57, 57, 57, 57, 57, 57, 57, 57, 57, 57, 57, 57, 57, 57, 57, 57, 57>>,
    <<49, 48, 48, 48, 48, 48, 48, 48, 48, 48, 48, 48, 48, 48, 48, 48, 48, 48, 48, 48, 48, 48, 48, 48>>,
    <<48, 48, 48, 48, 48, 48, 48, 48, 48, 48, 48, 48, 48, 48, 48, 48, 48, 48, 48, 48, 48, 48, 48, 48>> }

\* the largest integer that does not overflow, and the next, for d, h, m, s,
\* ms and us: 213503, 213504, 5124095, 5124096, 307445734, 307445735,
\* 18446744073, 18446744074, 18446744073709, 18446744073710,
\* 18446744073709551, 18446744073709552
EdgeInts ==
  { <<50, 49, 51, 53, 48, 51>>,
    <<50, 49, 51, 53, 48, 52>>,
    <<53, 49, 50, 52, 48, 57, 53>>,
    <<53, 49, 50, 52, 48, 57, 54>>,
    <<51, 48, 55, 52, 52, 53, 55, 51, 52>>,
    <<51, 48, 55, 52, 52, 53, 55, 51, 53>>,
    <<49, 56, 52, 52, 54, 55, 52, 52, 48, 55, 51>>,
    <<49, 56, 52, 52, 54, 55, 52, 52, 48, 55, 52>>,
    <<49, 56, 52, 52, 54, 55, 52, 52, 48, 55, 51, 55, 48, 57>>,
    <<49, 56, 52, 52, 54, 55, 52, 52, 48, 55, 51, 55, 49, 48>>,
    <<49, 56, 52, 52, 54, 55, 52, 52, 48, 55, 51, 55, 48, 57, 53, 53, 49>>,
    <<49, 56, 52, 52, 54, 55, 52, 52, 48, 55, 51, 55, 48, 57, 53, 53, 50>> }

\* "ns", "us", "ms", "s", "m", "h", "d"
UnitNames ==
  { <<110, 115>>,
    <<117, 115>>,
    <<109, 115>>,
    <<115>>,
    <<109>>,
    <<104>>,
    <<100>> }

\* what stands for a unit after an integer: the seven units, units inside
\* white space (" h", "ms ", " d ", U+00A0 "s"), and "", "x", "ss", "H",
\* "m s", U+4E2D
UnitTexts ==
  UnitNames \cup
  { <<32, 104>>,
    <<109, 115, 32>>,
    <<32, 100, 32>>,
    <<194, 160, 115>>,
    <<>>,
    <<120>>,
    <<115, 115>>,
    <<72>>,
    <<109, 32, 115>>,
    <<228, 184, 173>> }

\* "0", "1", "12", "007"
SmallInts ==
  { <<48>>,
    <<49>>,
    <<49, 50>>,
    <<48, 48, 55>> }

\* u64::MAX, u64::MAX - 1, u64::MAX / 3 = 6148914691236517205, and the
\* largest integers of us and d
LargeInts ==
  { <<49, 56, 52, 52, 54, 55, 52, 52, 48, 55, 51, 55, 48, 57, 53, 53, 49, 54, 49, 53>>,
    <<49, 56, 52, 52, 54, 55, 52, 52, 48, 55, 51, 55, 48, 57, 53, 53, 49, 54, 49, 52>>,
    <<54, 49, 52, 56, 57, 49, 52, 54, 57, 49, 50, 51, 54, 53, 49, 55, 50, 48, 53>>,
    <<49, 56, 52, 52, 54, 55, 52, 52, 48, 55, 51, 55, 48, 57, 53, 53, 49>>,
    <<50, 49, 51, 53, 48, 51>> }

\* 1, u64::MAX / 3 = 6148914691236517205, u64::MAX
TripleInts ==
  { <<49>>,
    <<54, 49, 52, 56, 57, 49, 52, 54, 57, 49, 50, 51, 54, 53, 49, 55, 50, 48, 53>>,
    <<49, 56, 52, 52, 54, 55, 52, 52, 48, 55, 51, 55, 48, 57, 53, 53, 49, 54, 49, 53>> }

\* the inputs of duration/tests.rs and of the module's documentation, and
\* "1h1h", " 0 ", "00", "1h2", "1h 2x", "1 2s", "h1", "1s 2m 3s", "1h2x3",
\* "1d1h1m1s1ms1us1ns", "1ms1m1s"
DurationTestTexts ==
  { <<49, 100>>,
    <<49, 104>>,
    <<49, 109>>,
    <<49, 115>>,
    <<49, 109, 115>>,
    <<49, 117, 115>>,
    <<49, 110, 115>>,
    <<48, 100>>,
    <<48, 104>>,
    <<48, 109>>,
    <<48, 115>>,
    <<48, 109, 115>>,
    <<48, 117, 115>>,
    <<48, 110, 115>>,
    <<48>>,
    <<49, 100, 49, 50, 104>>,
    <<49, 104, 53, 48, 109>>,
    <<51, 109, 50, 48, 115>>,
    <<49, 100, 32, 49, 50, 104>>,
    <<49, 104, 32, 53, 48, 109>>,
    <<51, 109, 32, 50, 48, 115>>,
    <<49, 100, 32, 49, 50, 104, 32, 49, 50, 48, 115>>,
    <<49, 104, 32, 53, 48, 109, 32, 51, 53, 109, 115>>,
    <<51, 109, 32, 50, 48, 115, 32, 49, 48, 48, 110, 115>>,
    <<>>,
    <<49>>,
    <<115>>,
    <<49, 115, 115>>,
    <<49, 32, 228, 184, 173, 230, 150, 135>>,
    <<49, 48, 48, 48, 48, 48, 48, 48, 48, 48, 48, 48, 48, 48, 48, 48, 48, 48, 48, 48, 48, 110, 115>>,
    <<49, 48, 48, 48, 48, 48, 48, 48, 48, 48, 48, 48, 48, 48, 48, 48, 48, 48, 117, 115>>,
    <<49, 48, 48, 48, 48, 48, 48, 48, 48, 48, 48, 48, 48, 48, 48, 109, 115>>,
    <<49, 48, 48, 48, 48, 48, 48, 48, 48, 48, 48, 48, 48, 48, 48, 48, 48, 48, 48, 48, 48, 115>>,
    <<49, 48, 48, 48, 48, 48, 48, 48, 48, 48, 48, 48, 48, 48, 48, 48, 48, 48, 48, 48, 109>>,
    <<49, 48, 48, 48, 48, 48, 48, 48, 48, 48, 48, 48, 48, 48, 48, 48, 48, 48, 48, 104>>,
    <<49, 48, 48, 48, 48, 48, 48, 48, 48, 48, 48, 48, 48, 48, 48, 48, 48, 48, 100>>,
    <<49, 104, 32, 51, 48, 109, 32, 55, 49, 115>>,
    <<49, 104, 49, 104>>,
    <<32, 48, 32>>,
    <<48, 48>>,
    <<49, 104, 50>>,
    <<49, 104, 32, 50, 120>>,
    <<49, 32, 50, 115>>,
    <<104, 49>>,
    <<49, 115, 32, 50, 109, 32, 51, 115>>,
    <<49, 104, 50, 120, 51>>,
    <<49, 100, 49, 104, 49, 109, 49, 115, 49, 109, 115, 49, 117, 115, 49, 110, 115>>,
    <<49, 109, 115, 49, 109, 49, 115>> }

\* duration::parse(s)
CallDurationParse(s) ==
  /\ op' = "duration::parse"
  /\ arg' = s
  /\ ret' = duration_parse(s)

\* duration::parse on one segment: an integer of every length up to
\* MaxDigits and every unit text, bare or inside white space
DurationSweep ==
  /\ op = "idle"
  /\ \E src \in DigitSources, n \in 0..MaxDigits, u \in UnitTexts,
        ws \in {<<>>, <<32>>} :
       CallDurationParse(ws \o SubSeq(src, 1, n) \o u \o ws)

\* duration::parse on one segment at the edge of an overflow
DurationEdges ==
  /\ op = "idle"
  /\ \E e \in EdgeInts, u \in UnitNames : CallDurationParse(e \o u)

\* duration::parse on two segments, the first small or large
DurationPairs ==
  /\ op = "idle"
  /\ \E i1 \in SmallInts \cup LargeInts, u1 \in UnitNames, sp \in {<<>>, <<32>>},
        i2 \in {<<48>>, <<49>>, <<49, 50>>}, u2 \in {<<110, 115>>, <<115>>, <<100>>} :
       CallDurationParse(i1 \o u1 \o sp \o i2 \o u2)

\* duration::parse on three segments of 1, u64::MAX / 3 and u64::MAX
DurationTriples ==
  /\ op = "idle"
  /\ \E i1 \in TripleInts, u1 \in {<<110, 115>>, <<100>>},
        i2 \in TripleInts,
        i3 \in TripleInts, u3 \in {<<110, 115>>, <<104>>} :
       CallDurationParse(i1 \o u1 \o i2 \o <<110, 115, 32>> \o i3 \o u3)

\* duration::parse on the inputs of the tests
DurationTests ==
  /\ op = "idle"
  /\ \E s \in DurationTestTexts : CallDurationParse(s)

\* the inputs of test_parsing_strings
BytesTestTexts ==
  { <<48>>,
    <<49>>,
    <<49, 98>>,
    <<49, 66>>,
    <<49, 32, 98>>,
    <<49, 32, 66>>,
    <<49, 32, 107, 105>>,
    <<49, 32, 75, 105>>,
    <<49, 32, 107, 105, 98>>,
    <<49, 32, 75, 105, 66>>,
    <<49, 32, 109, 105>>,
    <<49, 32, 77, 105>>,
    <<49, 32, 109, 105, 98>>,
    <<49, 32, 77, 105, 66>>,
    <<49, 32, 103, 105>>,
    <<49, 32, 71, 105>>,
    <<49, 32, 103, 105, 98>>,
    <<49, 32, 71, 105, 66>>,
    <<49, 32, 116, 105>>,
    <<49, 32, 84, 105>>,
    <<49, 32, 116, 105, 98>>,
    <<49, 32, 84, 105, 66>>,
    <<49, 32, 112, 105>>,
    <<49, 32, 80, 105>>,
    <<49, 32, 112, 105, 98>>,
    <<49, 32, 80, 105, 66>>,
    <<49, 32, 101, 105>>,
    <<49, 32, 69, 105>>,
    <<49, 32, 101, 105, 98>>,
    <<49, 32, 69, 105, 66>>,
    <<49, 32, 107>>,
    <<49, 32, 75>>,
    <<49, 32, 107, 98>>,
    <<49, 32, 75, 66>>,
    <<49, 32, 109>>,
    <<49, 32, 77>>,
    <<49, 32, 109, 98>>,
    <<49, 32, 77, 66>>,
    <<49, 32, 103>>,
    <<49, 32, 71>>,
    <<49, 32, 103, 98>>,
    <<49, 32, 71, 66>>,
    <<49, 32, 116>>,
    <<49, 32, 84>>,
    <<49, 32, 116, 98>>,
    <<49, 32, 84, 66>>,
    <<49, 32, 112>>,
    <<49, 32, 80>>,
    <<49, 32, 112, 98>>,
    <<49, 32, 80, 66>>,
    <<49, 32, 101>>,
    <<49, 32, 69>>,
    <<49, 32, 101, 98>>,
    <<49, 32, 69, 66>>,
    <<>>,
    <<69, 66>>,
    <<48, 46, 53, 32, 69, 66>>,
    <<45, 49, 32, 69, 66>>,
    <<49, 32, 69, 69, 69, 69, 66>>,
    <<49, 48, 48, 32, 69, 66>> }

\* the 26 spellings of the 13 units
UnitSpellings ==
  { <<>>,
    <<98>>,
    <<107, 105>>,
    <<107, 105, 98>>,
    <<109, 105>>,
    <<109, 105, 98>>,
    <<103, 105>>,
    <<103, 105, 98>>,
    <<116, 105>>,
    <<116, 105, 98>>,
    <<112, 105>>,
    <<112, 105, 98>>,
    <<101, 105>>,
    <<101, 105, 98>>,
    <<107>>,
    <<107, 98>>,
    <<109>>,
    <<109, 98>>,
    <<103>>,
    <<103, 98>>,
    <<116>>,
    <<116, 98>>,
    <<112>>,
    <<112, 98>>,
    <<101>>,
    <<101, 98>> }

\* texts that are no unit, "x", "bb", "ib", "kibb", "eeeeb", "k b", "bk", U+00B5,
\* U+00E9 "b", "k" U+00B0, the Kelvin sign alone and before "b" and "ib",
\* which to_lowercase turns into a unit, and letters beyond ASCII: U+00DF,
\* capitals (U+00C9, U+03A3 alone, at the end and at the start of a word,
\* U+0130, U+042F, U+2126, U+212B), U+10D50, U+A7CB, U+A7DC and U+16EA0,
\* letters of the versions after 15.0, and the code points the later versions
\* change: U+0363 and U+1DE6, U+0295 and U+1171E beside U+03A3
OtherUnitTexts ==
  { <<120>>,
    <<98, 98>>,
    <<105, 98>>,
    <<107, 105, 98, 98>>,
    <<101, 101, 101, 101, 98>>,
    <<107, 32, 98>>,
    <<98, 107>>,
    <<194, 181>>,
    <<195, 169, 98>>,
    <<226, 132, 170>>,
    <<226, 132, 170, 98>>,
    <<226, 132, 170, 105, 98>>,
    <<107, 194, 176>>,
    <<195, 159>>,
    <<195, 137>>,
    <<206, 163>>,
    <<107, 206, 163>>,
    <<206, 163, 98>>,
    <<107, 204, 129, 206, 163, 46>>,
    <<196, 176>>,
    <<208, 175>>,
    <<226, 132, 166>>,
    <<226, 132, 171>>,
    <<240, 144, 181, 144>>,
    <<240, 144, 181, 144, 98>>,
    <<205, 163>>,
    <<205, 163, 107>>,
    <<225, 183, 166>>,
    <<202, 149, 206, 163>>,
    <<97, 206, 163, 202, 149>>,
    <<97, 240, 145, 156, 158, 206, 163>>,
    <<97, 206, 163, 240, 145, 156, 158, 97>>,
    <<234, 159, 139>>,
    <<234, 159, 156>>,
    <<240, 150, 186, 160>> }

\* integers at the ends of the ranges of the types and of their quotients by the
\* units, with leading zeros, and beyond u64
EdgeValues ==
  { <<48>>,
    <<49>>,
    <<50>>,
    <<51>>,
    <<52>>,
    <<53>>,
    <<55>>,
    <<56>>,
    <<57>>,
    <<49, 53>>,
    <<49, 54>>,
    <<49, 56>>,
    <<49, 57>>,
    <<51, 49>>,
    <<51, 50>>,
    <<51, 51>>,
    <<54, 51>>,
    <<54, 52>>,
    <<54, 53>>,
    <<54, 54>>,
    <<49, 50, 55>>,
    <<49, 50, 56>>,
    <<49, 50, 57>>,
    <<50, 53, 53>>,
    <<50, 53, 54>>,
    <<51, 50, 55, 54, 55>>,
    <<51, 50, 55, 54, 56>>,
    <<54, 53, 53, 51, 53>>,
    <<54, 53, 53, 51, 54>>,
    <<50, 49, 52, 55, 52, 56, 51, 54, 52, 55>>,
    <<50, 49, 52, 55, 52, 56, 51, 54, 52, 56>>,
    <<52, 50, 57, 52, 57, 54, 55, 50, 57, 53>>,
    <<52, 50, 57, 52, 57, 54, 55, 50, 57, 54>>,
    <<57, 50, 50, 51, 51, 55, 50, 48, 51, 54, 56, 53, 52, 55, 55, 53, 56, 48, 55>>,
    <<57, 50, 50, 51, 51, 55, 50, 48, 51, 54, 56, 53, 52, 55, 55, 53, 56, 48, 56>>,
    <<49, 56, 52, 52, 54, 55, 52, 52, 48, 55, 51, 55, 48, 57, 53, 53, 49, 54, 49, 53>>,
    <<49, 56, 52, 52, 54, 55, 52, 52, 48, 55, 51, 55, 48, 57, 53, 53, 49, 54, 49, 54>>,
    <<48, 48, 48, 48, 48, 48, 48, 48, 48, 48, 48, 48, 48, 48, 48, 48, 48, 48, 48, 48, 48, 48, 48, 48, 50, 53, 53>>,
    <<57, 57, 57, 57, 57, 57, 57, 57, 57, 57, 57, 57, 57, 57, 57, 57, 57, 57, 57, 57, 57, 57, 57, 57, 57, 57>> }

\* integers with a sign
SignedValues ==
  { <<45, 48>>,
    <<45, 49>>,
    <<45, 50>>,
    <<45, 51>>,
    <<45, 56>>,
    <<45, 57>>,
    <<45, 51, 50>>,
    <<45, 51, 51>>,
    <<45, 49, 50, 55>>,
    <<45, 49, 50, 56>>,
    <<45, 49, 50, 57>>,
    <<45, 51, 50, 55, 54, 56>>,
    <<45, 51, 50, 55, 54, 57>>,
    <<45, 50, 49, 52, 55, 52, 56, 51, 54, 52, 56>>,
    <<45, 50, 49, 52, 55, 52, 56, 51, 54, 52, 57>>,
    <<45, 57, 50, 50, 51, 51, 55, 50, 48, 51, 54, 56, 53, 52, 55, 55, 53, 56, 48, 56>>,
    <<45, 57, 50, 50, 51, 51, 55, 50, 48, 51, 54, 56, 53, 52, 55, 55, 53, 56, 48, 57>>,
    <<43, 49>>,
    <<43, 49, 50, 55>>,
    <<43, 49, 50, 56>>,
    <<43, 50, 53, 53>> }

\* values that are no integers: "0.5", "1.", "1,5", "1_0", "-", "+", "--1", "+-1",
\* "1-", "1+1", "0x10" and "1e3" (cut at the letter), U+00BD, "1/2", and values
\* with U+00DF, a letter, U+10D50, a letter of the versions after 15.0, or
\* U+0363, a letter of the versions after 15.0 that 15.0 has as a mark
OddValues ==
  { <<48, 46, 53>>,
    <<49, 46>>,
    <<49, 44, 53>>,
    <<49, 95, 48>>,
    <<45>>,
    <<43>>,
    <<45, 45, 49>>,
    <<43, 45, 49>>,
    <<49, 45>>,
    <<49, 43, 49>>,
    <<48, 120, 49, 48>>,
    <<49, 101, 51>>,
    <<194, 189>>,
    <<49, 47, 50>>,
    <<195, 159>>,
    <<195, 159, 49>>,
    <<240, 144, 181, 144, 49>>,
    <<49, 240, 144, 181, 144, 49>>,
    <<49, 50, 205, 163>>,
    <<205, 163, 49>> }

\* values with characters of more than one byte that are neither alphabetic nor
\* white space: U+00B0, U+00BD, U+20AC, U+FF11, U+1F600, alone, repeated and
\* beside digits
WideValues ==
  { <<194, 176>>,
    <<194, 189>>,
    <<226, 130, 172>>,
    <<239, 188, 145>>,
    <<240, 159, 152, 128>>,
    <<49, 194, 176>>,
    <<49, 226, 130, 172>>,
    <<49, 50, 194, 176>>,
    <<194, 176, 194, 176>>,
    <<226, 130, 172, 226, 130, 172, 226, 130, 172>>,
    <<49, 50, 194, 176, 194, 176>>,
    <<240, 159, 152, 128, 240, 159, 152, 128, 240, 159, 152, 128, 240, 159, 152, 128>>,
    <<194, 176, 49>>,
    <<226, 130, 172, 49, 50>>,
    <<49, 194, 176, 50>> }

\* what follows a value of WideValues: nothing, white space, units and letters
\* beyond ASCII
SplitUnitTexts ==
  { <<>>,
    <<32>>,
    <<66>>,
    <<32, 66>>,
    <<32, 75, 105, 66>>,
    <<107, 98>>,
    <<32, 32, 101, 98, 32>>,
    <<32, 120>>,
    <<195, 169>>,
    <<228, 184, 173>>,
    <<32, 227, 128, 128, 109, 98>>,
    <<194, 160, 107>>,
    <<195, 159>>,
    <<195, 159, 107>>,
    <<206, 163>>,
    <<240, 144, 181, 144>>,
    <<240, 144, 181, 144, 107>> }

\* the ASCII capitals of bs
ToUpper(bs) == [i \in 1..Len(bs) |-> IF 97 <= bs[i] /\ bs[i] <= 122 THEN bs[i] - 32 ELSE bs[i]]

\* the first letter of bs a capital, and a final "b"
ToDisplay(bs) ==
  [i \in 1..Len(bs) |-> IF i = 1 \/ (i = Len(bs) /\ bs[i] = 98) THEN ToUpper(bs)[i] ELSE bs[i]]

\* the types with a width of their own
FixedTypes == {"i8", "u8", "i16", "u16", "i32", "u32", "i64", "u64"}

\* s.parse::<Bytes<T>>(), with the Unicode tables of any build
CallBytesFromStr(T, s) ==
  \E later \in LaterBuilds(s) :
    /\ op' = "Bytes::from_str"
    /\ arg' = [T |-> T, text |-> s]
    /\ ret' = Bytes_from_str(T, s, later)

\* Bytes::from_str on the inputs of test_parsing_strings, and of
\* test_int_types for every type
BytesTests ==
  /\ op = "idle"
  /\ \/ \E s \in BytesTestTexts : CallBytesFromStr("usize", s)
     \/ \E T \in IntTypes : CallBytesFromStr(T, <<49, 32, 66>>)

\* Bytes::from_str on a small value and every spelling of a unit, in lower
\* case, in capitals and as Display writes it, and on texts that are no unit
BytesUnits ==
  /\ op = "idle"
  /\ \E T \in IntTypes, v \in {<<49>>, <<49, 48, 48>>}, sp \in {<<>>, <<32>>},
        u \in UnitSpellings \cup OtherUnitTexts :
       \E t \in {u, ToUpper(u), ToDisplay(u)} : CallBytesFromStr(T, v \o sp \o t)

\* Bytes::from_str on the values at the ends of the ranges, for every unit
BytesEdges ==
  /\ op = "idle"
  /\ \E T \in FixedTypes, v \in EdgeValues \cup SignedValues,
        u \in {<<>>, <<107, 105>>, <<109, 105>>, <<103, 105>>, <<116, 105>>,
               <<112, 105>>, <<101, 105>>, <<107>>, <<109>>, <<103>>, <<116>>,
               <<112>>, <<101>>} :
       CallBytesFromStr(T, v \o u)

\* Bytes::from_str on values that are no integers
BytesValues ==
  /\ op = "idle"
  /\ \E T \in {"u8", "i8", "i64", "usize"}, v \in OddValues,
        u \in {<<>>, <<98>>, <<32, 69, 66>>, <<107, 105, 98>>, <<120>>},
        ws \in {<<>>, <<32>>, <<227, 128, 128>>} :
       CallBytesFromStr(T, ws \o v \o u \o ws)

\* Bytes::from_str on values with characters of more than one byte before
\* the unit
BytesSplits ==
  /\ op = "idle"
  /\ \E T \in {"u8", "usize"}, v \in WideValues, u \in SplitUnitTexts :
       CallBytesFromStr(T, v \o u)

\* the years, months, days and clocks of the pairs of tuples: the first and
\* the last year, leap and common years, the ends of February
PairYears == { 0, 1, 4, 1970, 9999 }
PairMonths == { 1, 2, 3, 12 }
PairDays == { 1, 28, 29, 31 }
PairClocks == { <<0, 0, 0, 0>>, <<0, 0, 0, 1>>, <<23, 59, 59, 999999999>> }

\* the tuple of a year, a month, a day and a clock
TupleOf(year, month, day, c) ==
  [year |-> year, month |-> month, day |-> day, hour |-> c[1], minute |-> c[2],
   second |-> c[3], nano |-> c[4]]

\* Time::from_timetuple on the fields of the tuple t in the zone
FromTimetupleOf(t, zone) ==
  FromTimetuple(t.year, t.month, t.day, t.hour, t.minute, t.second, t.nano, zone)

\* Time::from_timetuple on two tuples in the same zone
CallTuplePair ==
  /\ op = "idle"
  /\ \E ya \in PairYears, ma \in PairMonths, da \in PairDays, ca \in PairClocks,
        yb \in PairYears, mb \in PairMonths, db \in PairDays, cb \in PairClocks,
        h \in {-1, 0, 1} :
       LET zone == TimeZoneNew(h).offset
           a == TupleOf(ya, ma, da, ca)
           b == TupleOf(yb, mb, db, cb)
       IN  /\ op' = "from_timetuple_pair"
           /\ arg' = [a |-> a, b |-> b, zone |-> zone]
           /\ ret' = [a |-> FromTimetupleOf(a, zone), b |-> FromTimetupleOf(b, zone)]

NextParse ==
  ParseLengths \/ ParseDates \/ ParseFields \/ ParseSuffixes \/ ParseTests
SpecParse == Init /\ [][NextParse]_vars

NextZone == CallTimeZoneFromStr \/ CallTimeZoneNew
SpecZone == Init /\ [][NextZone]_vars

NextTuple == CallFromTimetuple
SpecTuple == Init /\ [][NextTuple]_vars

NextSince ==
  SystemTimeYears \/ SystemTimeTuples \/ CallParseToSystemTime \/ CallSince
SpecSince == Init /\ [][NextSince]_vars

NextOrder == CallCmp \/ CallParseCmp
SpecOrder == Init /\ [][NextOrder]_vars

NextTimes == NextParse \/ NextTuple
SpecTimes == Init /\ [][NextTimes]_vars

NextDuration ==
  DurationSweep \/ DurationEdges \/ DurationPairs \/ DurationTriples \/ DurationTests
SpecDuration == Init /\ [][NextDuration]_vars

NextBytes == BytesTests \/ BytesUnits \/ BytesEdges \/ BytesValues \/ BytesSplits
SpecBytes == Init /\ [][NextBytes]_vars

NextPairs == CallTuplePair
SpecPairs == Init /\ [][NextPairs]_vars

Next ==
  NextParse \/ NextZone \/ NextTuple \/ NextSince \/ NextOrder \/ NextDuration \/ NextBytes
    \/ NextPairs
Spec == Init /\ [][Next]_vars

(***************************************************************************)
(* What the claims speak of, written from their statements                  *)
(***************************************************************************)

\* the call recorded is parse_rfc3339
Parsed == op = "parse_rfc3339"

\* the lengths that reach the stages after the length classification
AcceptedLength(n) == n = 10 \/ n = 19 \/ (20 <= n /\ n <= 35)

\* a structural byte of bs (of accepted length) is wrong
PunctuationWrong(bs) ==
  \/ bs[5] # Chr["-"]
  \/ bs[8] # Chr["-"]
  \/ /\ Len(bs) > 10
     /\ \/ bs[11] \notin {Chr["T"], Chr[" "]}
        \/ bs[14] # Chr[":"]
        \/ bs[17] # Chr[":"]
  \/ /\ Len(bs) > 19
     /\ bs[20] \notin {Chr["."], Chr["Z"], Chr["+"], Chr["-"]}

IsDigit(b) == 48 <= b /\ b <= 57

\* the 1-based positions of the fixed numeric windows of bs
DigitWindows(bs) ==
  {1, 2, 3, 4, 6, 7, 9, 10}
    \cup (IF Len(bs) > 10 THEN {12, 13, 15, 16, 18, 19} ELSE {})

\* a byte of a fixed numeric window of bs is no ASCII digit
WindowsWrong(bs) == \E i \in DigitWindows(bs) : ~IsDigit(bs[i])

\* bs has an accepted length, right punctuation and digits in every window
Lexical(bs) ==
  AcceptedLength(Len(bs)) /\ ~PunctuationWrong(bs) /\ ~WindowsWrong(bs)

\* the number of digits bs has from the 1-based position i on
RECURSIVE DigitRun(_, _)
DigitRun(bs, i) ==
  IF i <= Len(bs) /\ IsDigit(bs[i]) THEN 1 + DigitRun(bs, i + 1) ELSE 0

\* the digits bs[i .. i+k-1] read as a decimal integer
RECURSIVE DecValue(_, _, _)
DecValue(bs, i, k) ==
  IF k = 0 THEN 0 ELSE DecValue(bs, i, k - 1) * 10 + (bs[i + k - 1] - 48)

\* bs has a '.' at byte 19
HasDot(bs) == Len(bs) > 19 /\ bs[20] = Chr["."]

\* the 28 zone suffixes: "", "Z", "+HH:00" and "-HH:00" for HH in 00..12
ZoneSuffixes ==
  { <<>>, <<90>> }
    \cup { <<sg, 48 + (hh \div 10), 48 + (hh % 10), 58, 48, 48>> :
             sg \in {43, 45}, hh \in 0..12 }

\* the offset in seconds a zone suffix denotes
SuffixOffset(z) ==
  IF Len(z) < 6
    THEN 0
    ELSE (IF z[1] = 45 THEN -1 ELSE 1) * ((z[2] - 48) * 10 + (z[3] - 48)) * 3600

(***************************************************************************)
(* Claims                                                                   *)
(***************************************************************************)

\* C1: parse_rfc3339 classifies the trimmed input by its byte length alone:
\* length 0 is EmptyInput, 1..9 and 11..18 are TooShort, more than 35 is
\* TooLong, and the lengths 10, 19 and 20..35 get none of these three errors.
C1_LengthClassification ==
  Parsed =>
    LET n == Len(Trim(arg))
    IN  /\ (n = 0 => ret = Err("EmptyInput"))
        /\ ((1 <= n /\ n <= 9) \/ (11 <= n /\ n <= 18) => ret = ErrTooShort)
        /\ (n > 35 => ret = ErrTooLong)
        /\ (AcceptedLength(n) =>
              ret \notin {Err("EmptyInput"), ErrTooShort, ErrTooLong})

\* C1 witness: white space around 36 letters, which have no timestamp's
\* content, and the answer is TooLong.
C1_Witness ==
  /\ Parsed
  /\ Len(arg) > Len(Trim(arg))
  /\ Len(Trim(arg)) = 36
  /\ Trim(arg)[5] = Chr["x"]
  /\ ret = ErrTooLong

\* C2: for an input of accepted length, parse_rfc3339 returns Malformed
\* exactly when a structural byte is wrong, whatever the numeric fields hold.
C2_MalformedIffPunctuation ==
  Parsed /\ AcceptedLength(Len(Trim(arg))) =>
    (ret = ErrMalformed <=> PunctuationWrong(Trim(arg)))

\* C2 witness: "200A/02-..." has a wrong separator and a non-digit in the
\* year at once, and is answered Malformed.
C2_Witness ==
  /\ Parsed
  /\ AcceptedLength(Len(Trim(arg)))
  /\ SubSeq(Trim(arg), 1, 8) = Str(<<"2","0","0","A","/","0","2","-">>)
  /\ PunctuationWrong(Trim(arg))
  /\ WindowsWrong(Trim(arg))
  /\ ret = ErrMalformed

\* C3: with valid length and punctuation, a non-digit in any fixed numeric
\* window gives InvalidValue, whatever the fraction, the zone and the
\* calendar validity of the other fields.
C3_NonDigitInvalidValue ==
  /\ Parsed
  /\ AcceptedLength(Len(Trim(arg)))
  /\ ~PunctuationWrong(Trim(arg))
  /\ WindowsWrong(Trim(arg))
  => ret = Err("InvalidValue")

\* C3 witness: a non-digit in the seconds of an input whose fraction is empty
\* and whose month is 13, answered InvalidValue.
C3_Witness ==
  /\ Parsed
  /\ Len(Trim(arg)) = 21
  /\ ~PunctuationWrong(Trim(arg))
  /\ ~IsDigit(Trim(arg)[18])
  /\ SubSeq(Trim(arg), 6, 7) = <<49, 51>>
  /\ SubSeq(Trim(arg), 20, 21) = <<46, 90>>
  /\ ret = Err("InvalidValue")

\* C4: when byte 19 is '.', a fraction of k digits, 1 <= k <= 9, gives the
\* nanoseconds (digits as an integer) * 10^(9-k), and a fraction of no digit
\* gives MissingValue.
C4_FractionPadding ==
  Parsed /\ Lexical(Trim(arg)) /\ HasDot(Trim(arg)) =>
    LET bs == Trim(arg)
        k == DigitRun(bs, 21)
    IN  /\ (k = 0 => ret = Err("MissingValue"))
        /\ (1 <= k /\ k <= 9 /\ ret.tag = "Ok" =>
              ret.nano = DecValue(bs, 21, k) * 10^(9 - k))

\* C4 witness: the fraction ".123" of an accepted input gives 123000000.
C4_Witness ==
  /\ Parsed
  /\ Lexical(Trim(arg))
  /\ HasDot(Trim(arg))
  /\ DigitRun(Trim(arg), 21) = 3
  /\ DecValue(Trim(arg), 21, 3) = 123
  /\ ret.tag = "Ok"
  /\ ret.nano = 123000000

\* C5: parse_rfc3339 returns InvalidTimezone whenever the bytes after the
\* seconds (or after the 1..9 fraction digits) are no accepted zone suffix.
C5_BadZoneInvalidTimezone ==
  Parsed /\ Lexical(Trim(arg)) /\ Len(Trim(arg)) > 19 =>
    LET bs == Trim(arg)
        k == DigitRun(bs, 21)
        rest == IF HasDot(bs) THEN SubSeq(bs, 21 + k, Len(bs))
                               ELSE SubSeq(bs, 20, Len(bs))
    IN  (HasDot(bs) => 1 <= k /\ k <= 9) /\ rest \notin ZoneSuffixes
          => ret = ErrInvalidTimezone

\* bs ends with a non-empty zone suffix
EndsWithZone(bs) ==
  \E z \in ZoneSuffixes :
     /\ 0 < Len(z) /\ Len(z) <= Len(bs)
     /\ SubSeq(bs, Len(bs) - Len(z) + 1, Len(bs)) = z

\* bs is date, time, '.' and digits to its end
FractionToTheEnd(bs) == HasDot(bs) /\ DigitRun(bs, 21) = Len(bs) - 20

\* the literals "+HH:00" / "-HH:00" of the hour offset h
HourLiterals(h) ==
  { <<sg, 48 + (a \div 10), 48 + (a % 10), 58, 48, 48>> :
      sg \in (IF h >= 0 THEN {43} ELSE {}) \cup (IF h <= 0 THEN {45} ELSE {}),
      a \in {IF h >= 0 THEN h ELSE -h} }

\* the leap rule: divisible by 4 and (not by 100 or by 400)
Leap(y) == y % 4 = 0 /\ (y % 100 # 0 \/ y % 400 = 0)

\* the days of month m of year y
MonthLength(y, m) ==
  IF m = 2 THEN (IF Leap(y) THEN 29 ELSE 28)
           ELSE IF m \in {4, 6, 9, 11} THEN 30 ELSE 31

\* the sum of f over the set S of integers
RECURSIVE SumOver(_, _)
SumOver(f, S) ==
  IF S = {} THEN 0
  ELSE LET x == CHOOSE x \in S : TRUE IN f[x] + SumOver(f, S \ {x})

\* the calendar days from 0000-01-01 to y-m-d, the leap rule applied to
\* every year from 0 on
CalendarDays(y, m, d) ==
  365 * y + Cardinality({k \in 0..(y - 1) : Leap(k)})
    + SumOver([k \in 1..12 |-> MonthLength(y, k)], 1..(m - 1))
    + (d - 1)

\* the call recorded is from_timetuple
Tupled == op = "from_timetuple"

\* the clock of the recorded tuple is in range
ClockInRange ==
  arg.hour <= 23 /\ arg.minute <= 59 /\ arg.second <= 59 /\ arg.nano <= 999999999

\* C6: TimeZone::from_str accepts exactly the 28 strings "", "Z", "+HH:00",
\* "-HH:00" (HH in 00..12) with the offset +-HH*3600, and answers
\* InvalidValue to every other string.
C6_ZoneGrammar ==
  /\ Cardinality(ZoneSuffixes) = 28
  /\ op = "TimeZone::from_str" =>
       IF arg \in ZoneSuffixes
         THEN ret = OkZone(SuffixOffset(arg))
         ELSE ret = Err("InvalidValue")

\* C6 witness: "-12:00" parsed to -43200 seconds.
C6_Witness ==
  /\ op = "TimeZone::from_str"
  /\ arg = <<45, 49, 50, 58, 48, 48>>
  /\ ret = OkZone(-43200)

\* C7: TimeZone::new(h) is Some zone of offset 3600*h exactly when
\* -12 <= h <= 12, None otherwise, and equals the zone parsed from the
\* literal "+HH:00" / "-HH:00" of h.
C7_NewMatchesLiteral ==
  op = "TimeZone::new" =>
    IF -12 <= arg /\ arg <= 12
      THEN /\ ret = SomeZone(3600 * arg)
           /\ \A lit \in HourLiterals(arg) : TimeZoneFromStr(lit) = OkZone(ret.offset)
      ELSE ret = None

\* C7 witness: TimeZone::new(-12) is the zone of -43200 seconds.
C7_Witness ==
  /\ op = "TimeZone::new"
  /\ arg = -12
  /\ ret = SomeZone(-43200)

\* C8 as stated: every accepted input longer than 19 bytes ends with a
\* non-empty zone suffix.
C8_ZoneMandatory ==
  Parsed /\ Len(Trim(arg)) > 19 /\ ret.tag = "Ok" => EndsWithZone(Trim(arg))

\* C8 amended: every accepted input longer than 19 bytes ends with a
\* non-empty zone suffix or is date, time, '.' and fraction digits to its
\* end (the zone is mandatory only when there is no fraction).
C8_ZoneMandatoryWithoutFraction ==
  Parsed /\ Len(Trim(arg)) > 19 /\ ret.tag = "Ok" =>
    EndsWithZone(Trim(arg)) \/ FractionToTheEnd(Trim(arg))

\* C8 witness: an input with a fraction and no zone suffix is accepted.
C8_Witness ==
  /\ Parsed
  /\ Len(Trim(arg)) > 19
  /\ FractionToTheEnd(Trim(arg))
  /\ ~EndsWithZone(Trim(arg))
  /\ ret.tag = "Ok"

\* C9: from_timetuple returns None whenever year > 10000, month is outside
\* 1..12, day outside 1..31, hour > 23, minute > 59, second > 59,
\* nano > 999999999 or the day exceeds the month's length under the leap
\* rule; 1988-02-29 is accepted.
C9_InvalidTupleRejected ==
  Tupled =>
    /\ (\/ arg.year > 10000
         \/ arg.month < 1 \/ arg.month > 12
         \/ arg.day < 1 \/ arg.day > 31
         \/ ~ClockInRange
         \/ arg.day > MonthLength(arg.year, arg.month)
         => ret = None)
    /\ (arg.year = 1988 /\ arg.month = 2 /\ arg.day = 29 /\ ClockInRange
         => ret.tag = "Some")

\* C9 witness: 1987-02-29T00:00:00 at UTC is rejected.
C9_Witness ==
  /\ Tupled
  /\ arg.year = 1987 /\ arg.month = 2 /\ arg.day = 29
  /\ arg.hour = 0 /\ arg.minute = 0 /\ arg.second = 0 /\ arg.nano = 0
  /\ arg.zone = 0
  /\ ret = None

\* C10: for every valid civil tuple at UTC, the seconds of the Time are
\* 86400 * (calendar days from 0000-01-01, the leap rule applied to every
\* year including year 0) + 3600*hour + 60*minute + second.
C10_SecondsSinceYearZero ==
  Tupled /\ ret.tag = "Some" /\ arg.zone = 0 =>
    ret.sec = Secs(CalendarDays(arg.year, arg.month, arg.day),
                   3600 * arg.hour + 60 * arg.minute + arg.second)

\* the call recorded is to_system_time
SystemTimed == op = "to_system_time"

\* the recorded tuple is midnight at UTC
MidnightUtc ==
  arg.hour = 0 /\ arg.minute = 0 /\ arg.second = 0 /\ arg.nano = 0 /\ arg.zone = 0

\* the days of the years 1970 .. y-1: 366 for a leap year, 365 otherwise
DaysOfYearsFrom1970(y) ==
  365 * (y - 1970) + Cardinality({k \in 1970..(y - 1) : Leap(k)})

\* C11: for every year y in 1970..9999, the first of January of y at UTC
\* lies 86400 * (the days of the years 1970..y-1) seconds after the Unix
\* epoch, the first of February 31 days later and the first of March 59 days
\* later (60 when y is a leap year).
C11_CycleExactness ==
  /\ SystemTimed /\ MidnightUtc /\ arg.day = 1
  /\ 1970 <= arg.year /\ arg.year < 10000 /\ arg.month \in {1, 2, 3}
  => LET days == DaysOfYearsFrom1970(arg.year)
                   + (CASE arg.month = 1 -> 0
                        [] arg.month = 2 -> 31
                        [] arg.month = 3 -> IF Leap(arg.year) THEN 60 ELSE 59)
     IN  ret = [tag |-> "Some",
                after_epoch |-> [secs |-> [days |-> days, secs |-> 0], nanos |-> 0]]

\* C11 witness: 9999-03-01 at UTC lies the days of the years 1970..9998 and 59 days after the epoch.
C11_Witness ==
  /\ SystemTimed /\ MidnightUtc
  /\ arg.year = 9999 /\ arg.month = 3 /\ arg.day = 1
  /\ ret.tag = "Some"
  /\ ret.after_epoch.secs.secs = 0
  /\ ret.after_epoch.secs.days = DaysOfYearsFrom1970(9999) + 59

\* the recorded tuple is 1970-01-01T00:00:00 at UTC
EpochTuple ==
  arg.year = 1970 /\ arg.month = 1 /\ arg.day = 1 /\ MidnightUtc

\* the system time that is SystemTime::UNIX_EPOCH itself
EpochSystemTime ==
  [tag |-> "Some", after_epoch |-> [secs |-> [days |-> 0, secs |-> 0], nanos |-> 0]]

\* C12: from_timetuple(1970,1,1,0,0,0,0,UTC) is UNIX_EPOCH, of
\* sec = 62167132800 = 719527 * 86400 and nano = 0, so
\* "1970-01-01T00:00:00Z" converts to the zero duration since the Unix epoch;
\* to_system_time is None exactly for the instants earlier than UNIX_EPOCH,
\* and otherwise the system time that, added to UNIX_EPOCH, gives the instant.
C12_EpochIdentity ==
  /\ SystemTimed /\ EpochTuple =>
       /\ arg.self = [sec |-> [days |-> 719527, secs |-> 0], nano |-> 0]
       /\ arg.self = UNIX_EPOCH
       /\ ret = EpochSystemTime
  /\ op = "parse_to_system_time"
       /\ arg.text = Str(<<"1","9","7","0","-","0","1","-","0","1","T",
                           "0","0",":","0","0",":","0","0","Z">>)
       => ret = EpochSystemTime
  /\ op \in {"to_system_time", "parse_to_system_time"} =>
       /\ ret = None <=> arg.self.sec.days < 719527
       /\ ret # None =>
            /\ ret.tag = "Some"
            /\ arg.self.sec = Secs(719527 + ret.after_epoch.secs.days,
                                   ret.after_epoch.secs.secs)
            /\ arg.self.nano = ret.after_epoch.nanos

\* C12 witness: 1970-01-01T00:00:00 at +01:00 is one hour before the epoch
\* and has no system time.
C12_Witness ==
  /\ SystemTimed
  /\ arg.year = 1970 /\ arg.month = 1 /\ arg.day = 1
  /\ arg.hour = 0 /\ arg.minute = 0 /\ arg.second = 0 /\ arg.nano = 0
  /\ arg.zone = 3600
  /\ arg.self.sec = [days |-> 719526, secs |-> 82800]
  /\ ret = None

\* the recorded tuple is a valid civil tuple
ValidTuple ==
  /\ arg.year <= 9999 /\ 1 <= arg.month /\ arg.month <= 12
  /\ 1 <= arg.day /\ arg.day <= MonthLength(arg.year, arg.month)
  /\ ClockInRange

\* the local seconds of the recorded tuple: the seconds it has at offset 0
LocalSeconds ==
  FromTimetuple(arg.year, arg.month, arg.day, arg.hour, arg.minute, arg.second,
                arg.nano, 0).sec

\* "2006-01-02T15:04:05+08:00" and "2006-01-02T07:04:05Z"
SameInstantTexts ==
  { Str(<<"2","0","0","6","-","0","1","-","0","2","T","1","5",":","0","4",":","0","5",
          "+","0","8",":","0","0">>),
    Str(<<"2","0","0","6","-","0","1","-","0","2","T","0","7",":","0","4",":","0","5","Z">>) }

\* C13: for a valid civil tuple and a zone of offset o, from_timetuple yields
\* the local seconds minus o: for o >= 0 it returns None when o exceeds the
\* local seconds and otherwise a Time whose seconds plus o are the local
\* seconds; for o < 0 a Time it returns has the local seconds plus |o|; so
\* a tuple at +HH:00 with hour >= HH is the tuple HH hours earlier at UTC, and
\* "2006-01-02T15:04:05+08:00" and "2006-01-02T07:04:05Z" parse to one Time.
C13_OffsetSubtracted ==
  /\ Tupled /\ ValidTuple =>
       /\ arg.zone >= 0 =>
            IF SecsLess(LocalSeconds, Secs(0, arg.zone))
              THEN ret = None
              ELSE /\ ret.tag = "Some"
                   /\ SecsAdd(ret.sec, arg.zone) = LocalSeconds
                   /\ ret.nano = arg.nano
       /\ arg.zone < 0 /\ ret # None =>
            /\ ret.tag = "Some"
            /\ ret.sec = SecsAdd(LocalSeconds, -arg.zone)
            /\ ret.nano = arg.nano
       /\ arg.zone >= 0 /\ arg.zone % 3600 = 0 /\ arg.hour >= arg.zone \div 3600 =>
            ret = FromTimetuple(arg.year, arg.month, arg.day,
                                arg.hour - arg.zone \div 3600, arg.minute, arg.second,
                                arg.nano, 0)
  /\ Parsed /\ arg \in SameInstantTexts =>
       ret = OkTime([days |-> 732677, secs |-> 7 * 3600 + 4 * 60 + 5], 0)

\* C13 witness: 0000-01-01T00:00:00 at +01:00 has fewer local seconds than
\* its offset and is None.
C13_Witness ==
  /\ Tupled
  /\ arg.year = 0 /\ arg.month = 1 /\ arg.day = 1
  /\ arg.hour = 0 /\ arg.minute = 0 /\ arg.second = 0 /\ arg.nano = 0
  /\ arg.zone = 3600
  /\ ret = None

\* C14: every Time returned by from_timetuple or parse_rfc3339 has
\* sec < MAX_SECONDS = 315569433600 = 3652424 * 86400 and nano < 10^9; a
\* valid tuple whose offset-adjusted seconds reach MAX_SECONDS returns None,
\* as do from_timetuple(10000,1,1,0,0,0,0,UTC) and
\* from_timetuple(9999,12,31,23,0,0,0, offset -1h).
C14_BelowMaxSeconds ==
  /\ (Tupled \/ Parsed) /\ ret.tag \in {"Some", "Ok"} =>
       /\ 0 <= ret.sec.days /\ ret.sec.days < 3652424
       /\ 0 <= ret.sec.secs /\ ret.sec.secs < 86400
       /\ 0 <= ret.nano /\ ret.nano < 1000000000
  /\ Tupled /\ ValidTuple /\ arg.zone < 0
       /\ SecsAdd(LocalSeconds, -arg.zone).days >= 3652424
       => ret = None
  /\ Tupled /\ arg.year = 10000 /\ arg.zone <= 0 => ret = None
  /\ Tupled /\ arg.year = 9999 /\ arg.month = 12 /\ arg.day = 31 /\ arg.hour = 23
       /\ arg.zone = -3600
       => ret = None

\* C14 witness: 9999-12-31T23:00:00 at -01:00 is 10000-01-01T00:00:00Z, which
\* is MAX_SECONDS, and is None.
C14_Witness ==
  /\ Tupled
  /\ arg.year = 9999 /\ arg.month = 12 /\ arg.day = 31
  /\ arg.hour = 23 /\ arg.minute = 0 /\ arg.second = 0 /\ arg.nano = 0
  /\ arg.zone = -3600
  /\ SecsAdd(LocalSeconds, 3600) = [days |-> 3652424, secs |-> 0]
  /\ ret = None

\* the recorded tuple is 9999-12-31T23:59:59.999999999
LastNanosecond ==
  /\ arg.year = 9999 /\ arg.month = 12 /\ arg.day = 31
  /\ arg.hour = 23 /\ arg.minute = 59 /\ arg.second = 59 /\ arg.nano = 999999999

\* C15 as stated: from_timetuple(9999,12,31,23,59,59,999999999, offset -1h)
\* returns a Time, and the same tuple with offset +1h returns None.
C15_LastNanosecondShifted ==
  Tupled /\ LastNanosecond =>
    /\ arg.zone = -3600 => ret.tag = "Some"
    /\ arg.zone = 3600 => ret = None

\* C15 amended: from_timetuple(9999,12,31,23,59,59,999999999, offset -1h)
\* returns None (the instant is 10000-01-01T00:59:59.999999999Z, at or beyond
\* MAX_SECONDS), and the same tuple with offset +1h returns the Time of
\* 9999-12-31T22:59:59.999999999Z.
C15_LastNanosecondShiftedBack ==
  Tupled /\ LastNanosecond =>
    /\ arg.zone = -3600 => ret = None
    /\ arg.zone = 3600 =>
         ret = SomeTime([days |-> 3652423, secs |-> 22 * 3600 + 59 * 60 + 59], 999999999)

\* C15 witness: the tuple at +01:00 returns a Time.
C15_Witness ==
  /\ Tupled /\ LastNanosecond
  /\ arg.zone = 3600
  /\ ret.tag = "Some"
  /\ ret.sec.days = 3652423

\* the call recorded is since
Sinced == op = "since"

\* a is an earlier instant than b: a.sec < b.sec, or the seconds are equal
\* and a.nano < b.nano
Earlier(a, b) ==
  \/ a.sec.days < b.sec.days
  \/ a.sec.days = b.sec.days /\ a.sec.secs < b.sec.secs
  \/ a.sec = b.sec /\ a.nano < b.nano

\* the instant b + (secs, nanos), the nanoseconds carried into the seconds
Later(b, secs, nanos) ==
  [sec |-> Secs(b.sec.days + secs.days,
                b.sec.secs + secs.secs + (b.nano + nanos) \div 1000000000),
   nano |-> (b.nano + nanos) % 1000000000]

\* C16: a.since(b) is None if and only if a < b; otherwise it is a Duration
\* (secs, nanos) with 0 <= nanos < 10^9 and b + (secs, nanos) = a, that is
\* secs*10^9 + nanos = (a.sec*10^9 + a.nano) - (b.sec*10^9 + b.nano); the
\* borrow of a second never underflows, in a build with overflow checks (no
\* panic) or without (no wrapped seconds).
C16_SinceExact ==
  Sinced =>
    /\ ret = None <=> Earlier(arg.self, arg.earlier)
    /\ ret # None =>
         /\ ret.tag = "Some"
         /\ 0 <= ret.nanos /\ ret.nanos < 1000000000
         /\ 0 <= ret.secs.days
         /\ 0 <= ret.secs.secs /\ ret.secs.secs < 86400
         /\ Later(arg.earlier, ret.secs, ret.nanos) = arg.self

\* C16 witness: a whole second, since the instant 1 ns before it: the borrow
\* leaves 0 s and 1 ns.
C16_Witness ==
  /\ Sinced
  /\ arg.self.sec = SecsAdd(arg.earlier.sec, 1)
  /\ arg.self.nano = 0
  /\ arg.earlier.nano = 999999999
  /\ ret = SomeDuration([days |-> 0, secs |-> 0], 1)

\* C17: a.since(b) is None whenever b >= a, that is whenever a is not later
\* than b, also when a and b are the same instant.
C17_NoneUnlessLater ==
  Sinced /\ ~Earlier(arg.earlier, arg.self) => ret = None

\* the order of a and b by (sec, nano), lexicographically
Lexicographic(a, b) ==
  IF Earlier(a, b) THEN "Less" ELSE IF Earlier(b, a) THEN "Greater" ELSE "Equal"

\* the day field of a timestamp text
DayField(bs) == DecValue(bs, 9, 2)

\* C18: cmp orders Times lexicographically by (sec, nano), a total order:
\* exactly one of Less, Equal, Greater, Equal only for the same Time, and
\* Less one way round is Greater the other; and of two valid timestamps that
\* differ only in the day field, the one with the smaller day parses to the
\* smaller Time.
C18_OrderedByInstant ==
  /\ op = "cmp" =>
       /\ ret = Lexicographic(arg.self, arg.other)
       /\ ret = "Equal" <=> arg.self = arg.other
       /\ ret = "Less" <=> cmp(arg.other, arg.self) = "Greater"
  /\ op = "parse_cmp" /\ ret.a.tag = "Ok" /\ ret.b.tag = "Ok" =>
       /\ SubSeq(arg.a, 1, 8) = SubSeq(arg.b, 1, 8)
       /\ SubSeq(arg.a, 11, Len(arg.a)) = SubSeq(arg.b, 11, Len(arg.b))
       /\ DayField(arg.a) < DayField(arg.b) => ret.ord = "Less"

\* C18 witness: "0000-02-28T23:59:59-12:00" and "0000-02-29T23:59:59-12:00",
\* both valid, compare Less.
C18_Witness ==
  /\ op = "parse_cmp"
  /\ SubSeq(arg.a, 1, 8) = Str(<<"0","0","0","0","-","0","2","-">>)
  /\ DayField(arg.a) = 28 /\ DayField(arg.b) = 29
  /\ Len(arg.a) = 25 /\ arg.a[20] = Chr["-"]
  /\ ret.a.tag = "Ok" /\ ret.b.tag = "Ok"
  /\ ret.ord = "Less"

\* the bytes of bs after the seconds and the fraction
ZoneText(bs) ==
  IF HasDot(bs) THEN SubSeq(bs, 21 + DigitRun(bs, 21), Len(bs))
                ELSE SubSeq(bs, 20, Len(bs))

\* bs passes the lexical stages: length, punctuation, digit windows, a
\* fraction of 1..9 digits if there is a '.', and an accepted zone suffix
PassesLexical(bs) ==
  /\ Lexical(bs)
  /\ HasDot(bs) => 1 <= DigitRun(bs, 21) /\ DigitRun(bs, 21) <= 9
  /\ ZoneText(bs) \in ZoneSuffixes

\* the nanoseconds the fraction of bs denotes, 0 without a fraction
DecodedNano(bs) ==
  IF HasDot(bs)
    THEN DecValue(bs, 21, DigitRun(bs, 21)) * 10^(9 - DigitRun(bs, 21))
    ELSE 0

\* from_timetuple of the fields bs denotes: the clock is 0 for a 10-byte date,
\* the zone UTC and the fraction 0 when absent
DecodedTuple(bs) ==
  LET timed == Len(bs) > 10
  IN  FromTimetuple(DecValue(bs, 1, 4), DecValue(bs, 6, 2), DecValue(bs, 9, 2),
                    IF timed THEN DecValue(bs, 12, 2) ELSE 0,
                    IF timed THEN DecValue(bs, 15, 2) ELSE 0,
                    IF timed THEN DecValue(bs, 18, 2) ELSE 0,
                    DecodedNano(bs), SuffixOffset(ZoneText(bs)))

\* bs with the separator of date and time replaced by c
WithTimeSep(bs, c) == [bs EXCEPT ![11] = c]

\* C19: for every input that passes the lexical stages, parse_rfc3339 returns
\* Ok(t) exactly when from_timetuple of the decoded fields returns Some(t) and
\* Err(Overflow) when it returns None; a 10-byte date decodes with clock 0 at
\* UTC, a 19-byte date and time with nano 0 at UTC; 'T' and ' ' as separator
\* give the same result.
C19_ParseIsTupleOfFields ==
  Parsed /\ PassesLexical(Trim(arg)) =>
    LET bs == Trim(arg)
        t == DecodedTuple(bs)
    IN  /\ t.tag = "Some" => ret = OkTime(t.sec, t.nano)
        /\ t.tag = "None" => ret = Err("Overflow")
        /\ Len(bs) > 10 =>
             \A overflow_checks \in BOOLEAN :
               /\ parse_rfc3339(WithTimeSep(bs, Chr["T"]), overflow_checks) = ret
               /\ parse_rfc3339(WithTimeSep(bs, Chr[" "]), overflow_checks) = ret

\* C19 witness: "2018-02-29 15:04:05" with a fraction and a zone passes the
\* lexical stages, names no day of the calendar, and is answered Overflow.
C19_Witness ==
  /\ Parsed /\ PassesLexical(Trim(arg))
  /\ HasDot(Trim(arg))
  /\ SubSeq(Trim(arg), 1, 11) = Str(<<"2","0","1","8","-","0","2","-","2","9"," ">>)
  /\ Len(ZoneText(Trim(arg))) = 6
  /\ DecodedTuple(Trim(arg)).tag = "None"
  /\ ret = Err("Overflow")

\* the call recorded is duration::parse
DurationParsed == op = "duration::parse"

\* the number of bytes that are no digits bs has from the 1-based position i on
RECURSIVE NonDigitRun(_, _)
NonDigitRun(bs, i) ==
  IF i <= Len(bs) /\ ~IsDigit(bs[i]) THEN 1 + NonDigitRun(bs, i + 1) ELSE 0

\* bs from position i on cut into segments: a run of digits and the run of
\* other bytes after it, without the white space around it
RECURSIVE SegmentsFrom(_, _)
SegmentsFrom(bs, i) ==
  IF i > Len(bs)
    THEN <<>>
    ELSE LET k == DigitRun(bs, i)
             u == NonDigitRun(bs, i + k)
         IN  <<[int |-> SubSeq(bs, i, i + k - 1),
                unit |-> Trim(SubSeq(bs, i + k, i + k + u - 1))]>>
               \o SegmentsFrom(bs, i + k + u)

\* bs is one or more <int><unit> segments with a unit of the seven
WellFormedDuration(bs) ==
  LET segs == SegmentsFrom(bs, 1)
  IN  /\ Len(segs) >= 1
      /\ \A k \in 1..Len(segs) : Len(segs[k].int) >= 1 /\ segs[k].unit \in UnitNames

\* the decimal digit at position p of ds, 0 before its first digit
DigitAt(ds, p) == IF 1 <= p /\ p <= Len(ds) THEN ds[p] - 48 ELSE 0

\* the number the decimal digits ds denote: limb i is the i-th group of three
\* digits from the right
WideOfDigits(ds) ==
  [i \in 1..WideLen |->
     100 * DigitAt(ds, Len(ds) - 3 * i + 1) + 10 * DigitAt(ds, Len(ds) - 3 * i + 2)
       + DigitAt(ds, Len(ds) - 3 * i + 3)]

\* the nanoseconds of a unit: ns 1, us 10^3, ms 10^6, s 10^9, m 60 * 10^9,
\* h 3600 * 10^9, d 86400 * 10^9
NanosPerUnit(unit) ==
  CASE unit = <<110, 115>> -> <<1, 0, 0, 0, 0, 0, 0, 0, 0, 0, 0, 0, 0, 0>>
    [] unit = <<117, 115>> -> <<0, 1, 0, 0, 0, 0, 0, 0, 0, 0, 0, 0, 0, 0>>
    [] unit = <<109, 115>> -> <<0, 0, 1, 0, 0, 0, 0, 0, 0, 0, 0, 0, 0, 0>>
    [] unit = <<115>> -> <<0, 0, 0, 1, 0, 0, 0, 0, 0, 0, 0, 0, 0, 0>>
    [] unit = <<109>> -> <<0, 0, 0, 60, 0, 0, 0, 0, 0, 0, 0, 0, 0, 0>>
    [] unit = <<104>> -> <<0, 0, 0, 600, 3, 0, 0, 0, 0, 0, 0, 0, 0, 0>>
    [] unit = <<100>> -> <<0, 0, 0, 400, 86, 0, 0, 0, 0, 0, 0, 0, 0, 0>>

\* the integer of a segment times the nanoseconds of its unit
SegmentNanos(seg) ==
  WMul(WideOfDigits(seg.int), NanosPerUnit(seg.unit))

\* the sum of the first k segments
RECURSIVE RunningSum(_, _)
RunningSum(segs, k) ==
  IF k = 0 THEN WFromInt(0) ELSE WAdd(RunningSum(segs, k - 1), SegmentNanos(segs[k]))

\* x exceeds u64::MAX
ExceedsU64(x) == WLess(U64_MAX, x)

\* an integer, a product or a running sum of the segments exceeds u64::MAX
SegmentsOverflow(segs) ==
  \E k \in 1..Len(segs) :
     \/ ExceedsU64(WideOfDigits(segs[k].int))
     \/ ExceedsU64(SegmentNanos(segs[k]))
     \/ ExceedsU64(RunningSum(segs, k))

\* C20: for a trimmed input of one or more <int><unit> segments with a unit
\* of ns, us, ms, s, m, h, d (white space around a unit ignored),
\* duration::parse returns Err(Overflow) exactly when an integer, its product
\* with the unit or the running sum exceeds u64::MAX, and otherwise the
\* Duration of secs * 10^9 + nanos = the sum of the products, nanos < 10^9;
\* the input "0" gives the zero duration.
C20_DurationIsSum ==
  DurationParsed =>
    /\ Trim(arg) = <<48>> => ret = [tag |-> "Ok", secs |-> WFromInt(0), nanos |-> 0]
    /\ WellFormedDuration(Trim(arg)) =>
         LET segs == SegmentsFrom(Trim(arg), 1)
         IN  IF SegmentsOverflow(segs)
               THEN ret = Err("Overflow")
               ELSE /\ ret.tag = "Ok"
                    /\ 0 <= ret.nanos /\ ret.nanos < 1000000000
                    /\ WAdd(WMul(ret.secs, WFromInt(1000000000)), WFromInt(ret.nanos))
                         = RunningSum(segs, Len(segs))

\* C20 witness: two segments, each integer and each product within u64, whose
\* sum exceeds u64::MAX, answered Overflow.
C20_Witness ==
  /\ DurationParsed
  /\ WellFormedDuration(Trim(arg))
  /\ LET segs == SegmentsFrom(Trim(arg), 1)
     IN  /\ Len(segs) = 2
         /\ ~ExceedsU64(SegmentNanos(segs[1]))
         /\ ~ExceedsU64(SegmentNanos(segs[2]))
         /\ ExceedsU64(RunningSum(segs, 2))
  /\ ret = Err("Overflow")

\* the first k segments are well formed and neither an integer, a product nor
\* a running sum of them exceeds u64::MAX
SegmentsSound(segs, k) ==
  /\ \A j \in 1..k : Len(segs[j].int) >= 1 /\ segs[j].unit \in UnitNames
  /\ ~SegmentsOverflow(SubSeq(segs, 1, k))

\* the text after the integer of the last segment is empty: the input ends
\* with a digit
EndsWithDigits(bs) == Len(bs) >= 1 /\ IsDigit(bs[Len(bs)])

\* C21: duration::parse answers EmptyInput for a blank input, MissingValue
\* for a trimmed input that does not start with a digit and, for an input
\* other than "0" whose segments before the k-th are sound and whose k-th
\* integer fits u64, MissingUnit when the k-th integer runs to the end of the
\* input and InvalidUnit when the text after it is, trimmed, none of ns, us,
\* ms, s, m, h, d.
C21_StructuralErrors ==
  DurationParsed =>
    LET bs == Trim(arg)
        segs == SegmentsFrom(bs, 1)
    IN  /\ bs = <<>> => ret = Err("EmptyInput")
        /\ bs # <<>> /\ ~IsDigit(bs[1]) => ret = Err("MissingValue")
        /\ bs # <<>> /\ bs # <<48>> /\ IsDigit(bs[1]) =>
             \A k \in 1..Len(segs) :
                SegmentsSound(segs, k - 1) /\ ~ExceedsU64(WideOfDigits(segs[k].int)) =>
                  /\ k = Len(segs) /\ EndsWithDigits(bs) => ret = Err("MissingUnit")
                  /\ ~(k = Len(segs) /\ EndsWithDigits(bs)) /\ segs[k].unit \notin UnitNames
                       => ret = Err("InvalidUnit")

\* C21 witness: a sound first segment followed by an integer whose unit is
\* not one of the seven, answered InvalidUnit.
C21_Witness ==
  /\ DurationParsed
  /\ LET segs == SegmentsFrom(Trim(arg), 1)
     IN  /\ Len(segs) = 2
         /\ SegmentsSound(segs, 1)
         /\ segs[2].unit # <<>>
         /\ segs[2].unit \notin UnitNames
  /\ ret = Err("InvalidUnit")

\* a unit stands in two segments of bs
UnitRepeated(bs) ==
  LET segs == SegmentsFrom(bs, 1)
  IN  \E i, j \in 1..Len(segs) :
         i < j /\ segs[i].unit \in UnitNames /\ segs[i].unit = segs[j].unit

\* C22: duration::parse of a well-formed input in which a unit shows more
\* than once ("1h1h") returns Err(DuplicateUnit).
C22_DuplicateUnitReported ==
  DurationParsed /\ WellFormedDuration(Trim(arg)) /\ UnitRepeated(Trim(arg))
    => ret = Err("DuplicateUnit")

\* the call recorded is Bytes::from_str
BytesParsed == op = "Bytes::from_str"

\* the 0-based byte index at which the first alphabetic or white-space
\* character of bs starts, from the byte i on; Len(bs) if there is none
RECURSIVE BytePosition(_, _, _)
BytePosition(bs, i, later) ==
  IF i >= Len(bs)
    THEN Len(bs)
    ELSE LET k == Utf8CharLen(SliceFrom(bs, i))
             ch == Slice(bs, i, i + k)
         IN  IF is_alphabetic(ch, later) \/ is_whitespace(ch)
               THEN i
               ELSE BytePosition(bs, i + k, later)

\* the part of a trimmed input before its first alphabetic or white-space
\* character
ValuePart(input, later) == SubSeq(input, 1, BytePosition(input, 0, later))

\* the rest, trimmed and in lower case
UnitPart(input, later) ==
  to_lowercase(Trim(SubSeq(input, BytePosition(input, 0, later) + 1, Len(input))), later)

\* b to the power k
RECURSIVE WPow(_, _)
WPow(b, k) == IF k = 0 THEN WFromInt(1) ELSE WMul(WPow(b, k - 1), WFromInt(b))

\* the prefixes k, m, g, t, p, e
UnitPrefixes == <<107, 109, 103, 116, 112, 101>>

\* the multiplier of a unit: 1 for "" and "b", 1024^n for the n-th prefix
\* followed by "i" or "ib", 1000^n for the n-th prefix alone or followed by
\* "b"; the number 0 for no unit
Multiplier(u) ==
  IF u = <<>> \/ u = <<98>>
    THEN WFromInt(1)
    ELSE IF \E n \in 1..6 : u \in {<<UnitPrefixes[n], 105>>, <<UnitPrefixes[n], 105, 98>>}
      THEN WPow(1024, CHOOSE n \in 1..6 : u[1] = UnitPrefixes[n])
      ELSE IF \E n \in 1..6 : u \in {<<UnitPrefixes[n]>>, <<UnitPrefixes[n], 98>>}
        THEN WPow(1000, CHOOSE n \in 1..6 : u[1] = UnitPrefixes[n])
        ELSE WFromInt(0)

\* v without the sign T allows in front: '+', and '-' for a signed T
Unsigned(T, v) ==
  IF Len(v) >= 1 /\ (v[1] = 43 \/ (v[1] = 45 /\ IsSigned(T)))
    THEN SubSeq(v, 2, Len(v))
    ELSE v

\* v is written with '-' in front and T is signed
Negative(T, v) == Len(v) >= 1 /\ v[1] = 45 /\ IsSigned(T)

\* the magnitude m of the given sign is in the range of T
InRange(T, neg, m) ==
  IF neg /\ m # WFromInt(0) THEN ~WLess(WAdd(IntMax(T), WFromInt(1)), m)
                             ELSE ~WLess(IntMax(T), m)

\* v is an integer of type T: digits after the sign, of a value in the range
IsIntegerOf(T, v) ==
  LET ds == Unsigned(T, v)
  IN  /\ Len(ds) >= 1
      /\ \A i \in 1..Len(ds) : IsDigit(ds[i])
      /\ InRange(T, Negative(T, v), WideOfDigits(ds))

\* C23: Bytes::<T>::from_str returns EmptyInput for a blank input and
\* MissingValue for a trimmed input that starts with the unit; otherwise, the
\* input split at its first alphabetic or white-space character, InvalidUnit
\* for a unit that is, trimmed and in lower case, none of the 13, InvalidValue
\* for a value that is no integer of T, Overflow when the multiplier or the
\* product is out of the range of T, and else Ok(value * multiplier).
C23_BytesFromStr ==
  BytesParsed =>
    \E later \in LaterBuilds(arg.text) :
    LET T == arg.T
        input == Trim(arg.text)
        value == ValuePart(input, later)
        mult == Multiplier(UnitPart(input, later))
        neg == Negative(T, value)
        product == WMul(WideOfDigits(Unsigned(T, value)), mult)
    IN  /\ input = <<>> => ret = Err("EmptyInput")
        /\ input # <<>> /\ value = <<>> => ret = Err("MissingValue")
        /\ value # <<>> =>
             IF mult = WFromInt(0)
               THEN ret = Err("InvalidUnit")
               ELSE IF ~IsIntegerOf(T, value)
                 THEN ret = Err("InvalidValue")
                 ELSE IF ~InRange(T, FALSE, mult) \/ ~InRange(T, neg, product)
                   THEN ret = Err("Overflow")
                   ELSE /\ ret.tag = "Ok"
                        /\ ret.size = product
                        /\ ret.neg = (neg /\ product # WFromInt(0))

\* C27: Bytes::<T>::from_str returns Ok or Err for every input: the index it
\* splits the trimmed input at is a character boundary.
C27_FromStrTotal ==
  BytesParsed => ret.tag \in {"Ok", "Err"}

\* C24: when byte 19 is '.' and ten or more digits follow, the fraction decoder
\* consumes nine of them and the zone field starts at the tenth digit: the
\* result is what the zone decoder answers for the text from the tenth digit
\* on, which is no zone.
C24_TenthDigitStartsZone ==
  Parsed /\ Lexical(Trim(arg)) /\ HasDot(Trim(arg)) /\ DigitRun(Trim(arg), 21) >= 10 =>
    LET bs == Trim(arg)
        zone == TimeZoneFromStr(SubSeq(bs, 30, Len(bs)))
    IN  zone.tag = "Err" /\ ret = zone

\* C25: no addition, subtraction or multiplication of parse_rfc3339 (through
\* read_u32 and read_nano) and of from_timetuple leaves the range of its type:
\* no call ends in the panic of an arithmetic overflow, in any build.
C25_NoArithmeticOverflow ==
  Parsed \/ Tupled => ret # Panic

\* the call recorded is from_timetuple on a pair of tuples
Paired == op = "from_timetuple_pair"

\* the fields of a tuple in the order year, month, day, hour, minute, second,
\* nano
TupleFields(t) == <<t.year, t.month, t.day, t.hour, t.minute, t.second, t.nano>>

\* the tuple a precedes the tuple b in the lexicographic order of the fields
TuplePrecedes(a, b) ==
  \E i \in 1..7 :
     /\ \A j \in 1..(i - 1) : TupleFields(a)[j] = TupleFields(b)[j]
     /\ TupleFields(a)[i] < TupleFields(b)[i]

\* C26: for a fixed zone, when the tuple A precedes the tuple B in the
\* lexicographic order of (year, month, day, hour, minute, second, nano) and
\* from_timetuple succeeds on both, the Time of A is before the Time of B.
C26_StrictlyIncreasing ==
  Paired /\ TuplePrecedes(arg.a, arg.b) /\ ret.a.tag = "Some" /\ ret.b.tag = "Some"
    => Earlier(ret.a, ret.b)

====
